---- MODULE Spec2Model ----
(***************************************************************************)
(* Model of the Nexus MIDI controller firmware (cycfi-nexus-midi):         *)
(* the wear-levelled flash byte store (FlashManager), the save-delay       *)
(* scheduler (persistent_storage), the repeat buttons (util.hpp) and the   *)
(* program-change / bank-select controllers driven by ControllerFactory.   *)
(***************************************************************************)
EXTENDS Integers, Sequences, FiniteSets, TLC

VARIABLES
    seg_b,      \* flash SEGMENT_B (flash_b): 64 bytes, program-change base
    seg_c,      \* flash SEGMENT_C (flash_c): 64 bytes, bank select
    last,       \* history: record describing the last call made to the object
                \* exercised (FlashManager, debouncer, edge_detector, ...)
    nWrites,    \* history: FlashManager::write calls since the segment was fresh
    nErases,    \* history: erases done by those writes
    burst,      \* history: FlashManager::write calls made in this run
    clock,      \* millis(): 32-bit millisecond counter, as <<high word, low word>>
    save_delay_start_time,  \* int32, as the two 16-bit words of its bit pattern
    prev_time,  \* ControllerFactory::prev_time (uint32, as words)
    pc_curr,    \* ProgramChangeController::curr (int16): 5-way switch position
    pc_base,    \* ProgramChangeController::base (int16)
    bs_curr,    \* BankSelectController::curr (uint8)
    btn,        \* the six repeat_button<> objects, by name
    emitted,    \* MIDI messages sent by the last operation, in order
    phase,      \* "boot" before ControllerFactory::initialize, then "run"
    pass,       \* history: what the last loop pass did
    pendingFor, \* history: ms since the last reset_save_delay not yet followed
                \* by mark_saved (-1: none)
    quiet,      \* history: ms since the last selector edit (-1: none yet)
    nProg,      \* history: byte-programs per segment since the burst of edits began
    edited,     \* history: the selectors edited in the current burst
    uptime,     \* history: ms of loop time explored in this run
    jumped,     \* history: the idle period before the explored window is over
    passed,     \* history: a loop pass has run since the clock last advanced
    nInputs,    \* history: user inputs (button firings, switch moves) made in this run
    gt_val,     \* gate<noise_window, int32_t>::val of a gate exercised on its own
    lp_y,       \* lowpass<k, int32_t>::y of a filter exercised on its own
    rb,         \* DebugLogger::buffer: the RingBuffer's buffer, head, tail, overflow
    rbt,        \* the producer's and the consumer's position inside put() and get()
    cc          \* Controller / PitchBendController: lp1.y, lp2.y, gt.val

flashVars == <<seg_b, seg_c>>
histVars == <<last, nWrites, nErases, burst>>
schedVars == <<clock, save_delay_start_time, pendingFor>>
ctlVars == <<prev_time, pc_curr, pc_base, bs_curr, btn, emitted, phase, gt_val, lp_y,
            rb, rbt, cc>>
runVars == <<pass, quiet, nProg, edited, uptime, jumped, passed, nInputs>>
vars == <<seg_b, seg_c, last, nWrites, nErases, burst, clock,
          save_delay_start_time, prev_time, pc_curr, pc_base, bs_curr, btn,
          emitted, phase, pass, pendingFor, quiet, nProg, edited, uptime,
          jumped, passed, nInputs, gt_val, lp_y, rb, rbt, cc>>

----------------------------------------------------------------------------
(* Bounds of the exploration *)

\* FlashManager::write calls explored in one run of the flash store, from
\* every fill level 0..64 of the segment.
MaxBurst == 3

\* Values handed to FlashManager::write (a byte other than the erased 0xFF).
WriteVals == {0, 127, 254}

----------------------------------------------------------------------------
(* Flash segment: storage/flash_manager.cpp *)

SegSize == 64
Erased == 255
NullPtr == -1
Idx == 0 .. (SegSize - 1)

ErasedSeg == [i \in Idx |-> Erased]

RECURSIVE BitAnd(_, _)
\* Bitwise AND of two naturals: programming flash can only clear bits.
BitAnd(a, b) ==
    IF a = 0 \/ b = 0 THEN 0
    ELSE (a % 2) * (b % 2) + 2 * BitAnd(a \div 2, b \div 2)

\* Flash.erase(_segment): every byte of the segment reads 0xFF afterwards;
\* a failed erase leaves the segment as it was.
FlashErase(s, ok) == IF ok THEN ErasedSeg ELSE s

\* Flash.write(p, &val, 1): programs one byte; a failed program leaves it.
FlashProgram(s, i, val, ok) ==
    IF ok THEN [s EXCEPT ![i] = BitAnd(s[i], val)] ELSE s

RECURSIVE find_free_from(_, _)
find_free_from(s, i) ==
    IF i = SegSize THEN NullPtr
    ELSE IF s[i] = Erased THEN i
    ELSE find_free_from(s, i + 1)

find_free_skip0(s) == find_free_from(s, 1)
\* FlashManager::find_free: index of the first erased byte, or nullptr.
find_free(s) == find_free_from(s, 0)

\* FlashManager::empty
empty(s) == s[0] = Erased

read_at_free(s) ==
    IF empty(s) THEN Erased
    ELSE LET p == find_free(s)
         IN  IF p # NullPtr THEN s[p] ELSE s[SegSize - 1]
\* FlashManager::read
read(s) ==
    IF empty(s) THEN Erased
    ELSE LET p == find_free(s)
         IN  IF p # NullPtr THEN s[p - 1] ELSE s[SegSize - 1]

write_always_erase(s, val, okE, okP) ==
    LET s1 == FlashErase(s, okE)
    IN  [seg |-> FlashProgram(s1, 0, val, okP), full |-> TRUE,
         erases |-> 1, progs |-> 1, progIdx |-> 0, progOld |-> s1[0],
         failed |-> (~okE) \/ (~okP)]
write_no_erase(s, val, okE, okP) ==
    LET p   == find_free(s)
        idx == IF p = NullPtr THEN 0 ELSE p
    IN  [seg |-> FlashProgram(s, idx, val, okP), full |-> (p = NullPtr),
         erases |-> 0, progs |-> 1, progIdx |-> idx, progOld |-> s[idx],
         failed |-> ~okP]
\* FlashManager::write: the segment afterwards and what the call did to the
\* driver (erase calls, program calls, the byte programmed and its old value).
\* okE / okP: whether the driver's erase / program operation takes effect.
write(s, val, okE, okP) ==
    LET p == find_free(s)
    IN  IF p = NullPtr
        THEN LET s1 == FlashErase(s, okE)
             IN  [seg |-> FlashProgram(s1, 0, val, okP), full |-> TRUE,
                  erases |-> 1, progs |-> 1, progIdx |-> 0, progOld |-> s1[0],
                  failed |-> (~okE) \/ (~okP)]
        ELSE [seg |-> FlashProgram(s, p, val, okP), full |-> FALSE,
              erases |-> 0, progs |-> 1, progIdx |-> p, progOld |-> s[p],
              failed |-> ~okP]

----------------------------------------------------------------------------
(* The millisecond clock and the save delay: storage/persistent_storage.cpp *)

\* A 32-bit quantity is kept as <<high 16-bit word, low 16-bit word>>.
Word == 65536

U32Add(a, n) ==
    LET s == a[2] + n
    IN  <<(a[1] + (s \div Word)) % Word, s % Word>>

U32Pred(a) ==
    IF a[2] > 0 THEN <<a[1], a[2] - 1>> ELSE <<(a[1] + Word - 1) % Word, Word - 1>>

\* a > b, both unsigned 32-bit
U32Gt(a, b) == a[1] > b[1] \/ (a[1] = b[1] /\ a[2] > b[2])

\* int32_t -1 (bit pattern 0xFFFFFFFF): "no pending save"
MinusOne32 == <<Word - 1, Word - 1>>

save_delay == 3000

reset_save_delay_keep_oldest(now) ==
    IF save_delay_start_time = MinusOne32 THEN now
    ELSE save_delay_start_time

\* reset_save_delay: save_delay_start_time = millis() keeps the 32 bits.
reset_save_delay(now) == now

should_save_ge(sdst, now) ==
    sdst # MinusOne32 /\ ~U32Gt(U32Add(sdst, save_delay), now)
\* should_save: save_delay_start_time + save_delay is computed in uint32_t.
should_save(sdst, now) ==
    sdst # MinusOne32 /\ U32Gt(now, U32Add(sdst, save_delay))

\* mark_saved
mark_saved == MinusOne32

----------------------------------------------------------------------------
(* Buttons: util.hpp (debouncer, edge_detector, repeat_button) *)

samples == 10
delay_ == 1000
rate == 100
\* NEXUS_ENABLE_IMMEDIATE_DEBOUNCE is defined in feature_config.hpp
ImmediateDebounce == TRUE

Buttons == {"pc_up", "pc_down", "pc_grp_up", "pc_grp_down", "bs_up", "bs_down"}

\* A repeat_button after construction (statics are zero-initialised).
NewButton ==
    [counter |-> 0, result |-> FALSE, prev |-> FALSE, start_time |-> -1, delay |-> 0]

\* int x = <unsigned long>: the low 16 bits, two's complement (int is 16 bits)
ToInt16(w) == IF w >= Word \div 2 THEN w - Word ELSE w
MaxInt16 == 32767

debouncer_unsaturated(b, sw, immediate) ==
    IF sw
    THEN IF immediate
         THEN [b EXCEPT !.counter = samples, !.result = TRUE]
         ELSE [b EXCEPT !.counter = @ + 1, !.result = (b.counter >= samples)]
    ELSE [b EXCEPT !.counter = @ - 1, !.result = (b.result /\ b.counter > 0)]

debouncer_standard(b, sw, immediate) ==
    IF sw
    THEN IF b.counter = samples
         THEN [b EXCEPT !.result = TRUE]
         ELSE [b EXCEPT !.counter = @ + 1]
    ELSE IF b.counter = 0
         THEN [b EXCEPT !.result = FALSE]
         ELSE [b EXCEPT !.counter = @ - 1]
\* debouncer::operator()
debouncer(b, sw, immediate) ==
    IF sw
    THEN IF immediate
         THEN [b EXCEPT !.counter = samples, !.result = TRUE]
         ELSE IF b.counter = samples
              THEN [b EXCEPT !.result = TRUE]
              ELSE [b EXCEPT !.counter = @ + 1]
    ELSE IF b.counter = 0
         THEN [b EXCEPT !.result = FALSE]
         ELSE [b EXCEPT !.counter = @ - 1]

edge_detector_level(b, sw, immediate) ==
    LET d == debouncer(b, sw, immediate)
    IN  IF d.prev # d.result
        THEN [b |-> d, ret |-> IF d.result THEN 1 ELSE -1]
        ELSE [b |-> d, ret |-> 0]

\* edge_detector::operator(): 1 rising, -1 falling, 0 no change
edge_detector(b, sw, immediate) ==
    LET d == debouncer(b, sw, immediate)
    IN  IF d.prev # d.result
        THEN [b |-> [d EXCEPT !.prev = d.result],
              ret |-> IF d.result THEN 1 ELSE -1]
        ELSE [b |-> d, ret |-> 0]

\* now > (start_time + delay) in int; the sum overflowing int is undefined
\* behaviour: ub chooses between the wrapped sum and the unwrapped one.
RepeatDue(now, start, delay, ub) ==
    IF start + delay > MaxInt16
    THEN IF ub THEN now > start + delay - Word ELSE now > start + delay
    ELSE now > start + delay

\* repeat_button::operator(); now: millis() as words
repeat_button(b, sw, now, immediate, ub) ==
    LET e     == edge_detector(b, sw, immediate)
        now16 == ToInt16(now[2])
    IN  IF e.ret = 1
        THEN [b |-> [e.b EXCEPT !.start_time = now16, !.delay = delay_],
              ret |-> TRUE]
        ELSE IF e.ret = -1
        THEN [b |-> [e.b EXCEPT !.start_time = -1], ret |-> FALSE]
        ELSE IF e.b.start_time = -1
        THEN [b |-> e.b, ret |-> FALSE]
        ELSE IF RepeatDue(now16, e.b.start_time, e.b.delay, ub)
        THEN [b |-> [e.b EXCEPT !.start_time = now16, !.delay = rate],
              ret |-> TRUE]
        ELSE [b |-> e.b, ret |-> FALSE]

\* hardware_config.hpp: noise_window without NEXUS_TEST
noise_window == 2

gate_inclusive(val, s) ==
    IF (s <= val - noise_window) \/ (s >= val + noise_window)
    THEN [val |-> s, ret |-> TRUE]
    ELSE [val |-> val, ret |-> FALSE]

\* gate<noise_window, int32_t>::operator()(s): T is a 32-bit long, to which
\* the 16-bit unsigned window is converted, so val - window and val + window
\* are signed.
gate(val, s) ==
    IF (s < val - noise_window) \/ (s > val + noise_window)
    THEN [val |-> s, ret |-> TRUE]
    ELSE [val |-> val, ret |-> FALSE]

\* Integer division of C++: the quotient is truncated toward zero.
TruncDiv(a, b) == IF a >= 0 THEN a \div b ELSE -((-a) \div b)

lowpass_unscaled(y, s, k) ==
    LET y1 == y + s - y
    IN  [y |-> y1, out |-> TruncDiv(y1, k)]

\* A filter that gains one count with every sample.
lowpass_biased(y, s, k) ==
    LET y1 == y + s - TruncDiv(y, k) + 1
    IN  [y |-> y1, out |-> TruncDiv(y1, k)]

\* lowpass<k, int32_t>::operator()(s): y += s - (y / k); return y / k;
lowpass(y, s, k) ==
    LET y1 == y + s - TruncDiv(y, k)
    IN  [y |-> y1, out |-> TruncDiv(y1, k)]

\* The filter coefficients of a controller: lowpass<8, int32_t> lp1,
\* lowpass<16, int32_t> lp2.
Lp1K == 8
Lp2K == 16

\* Controller / PitchBendController as constructed: lp1.y, lp2.y, gt.val
NewController == [lp1 |-> 0, lp2 |-> 0, gt |-> 0]

\* uint32_t val = lp2(lp1(val_)); if (gt(val)) ...: the members afterwards,
\* val, and whether the gate let it pass
filter_chain(c, val_) ==
    LET f1 == lowpass(c.lp1, val_, Lp1K)
        f2 == lowpass(c.lp2, f1.out, Lp2K)
        g  == gate(c.gt, f2.out)
    IN  [c |-> [lp1 |-> f1.y, lp2 |-> f2.y, gt |-> g.val],
         out1 |-> f1.out, val |-> f2.out, fired |-> g.ret]

\* Controller<ctrl>::operator(): msb = val >> 3 and lsb = (val << 4) & 0x7F,
\* both uint8_t; val is not negative here
controller_messages(val) ==
    <<<<"control_change", "ctrl_lsb", (val * 16) % 128>>,
      <<"control_change", "ctrl", (val \div 8) % 256>>>>

\* PitchBendController::operator(): uint16_t{(val << 4) + (val % 16)}
pitch_bend_messages(val) ==
    <<<<"pitch_bend", "value", (val * 16 + (val % 16)) % Word>>>>

----------------------------------------------------------------------------
(* RingBuffer<SIZE> (ring_buffer.hpp), the buffer of DebugLogger.  An       *)
(* operation maps the record r of the object's fields (buffer, head, tail,  *)
(* overflow) to the record afterwards and to what the call returns.         *)

NEXUS_DEBUG_BUFFER_SIZE == 64
SIZE == NEXUS_DEBUG_BUFFER_SIZE

\* x & (SIZE - 1), SIZE a power of two; x is an int (the uint8_t operands
\* are promoted), never negative here
Wrap(x) == x % SIZE

\* RingBuffer(): head(0), tail(0), overflow(false); the object is static, so
\* buffer[] is zero-initialised
NewRing == [buffer |-> [i \in 0 .. SIZE - 1 |-> 0], head |-> 0, tail |-> 0,
            overflow |-> FALSE]

\* A put that makes room by dropping the oldest byte.
put_discard_oldest(r, data) ==
    LET next == Wrap(r.head + 1) IN
    IF next = r.tail
    THEN [rb |-> [r EXCEPT !.buffer[r.head] = data, !.head = next,
                           !.tail = Wrap(r.tail + 1), !.overflow = TRUE],
          ret |-> FALSE]
    ELSE [rb |-> [r EXCEPT !.buffer[r.head] = data, !.head = next],
          ret |-> TRUE]

\* RingBuffer::put
put(r, data) ==
    LET next == Wrap(r.head + 1) IN
    IF next = r.tail
    THEN [rb |-> [r EXCEPT !.overflow = TRUE], ret |-> FALSE]
    ELSE [rb |-> [r EXCEPT !.buffer[r.head] = data, !.head = next],
          ret |-> TRUE]

\* RingBuffer::get; data: the byte stored through the reference (none: the
\* caller's variable is left as it was)
get(r) ==
    IF r.head = r.tail
    THEN [rb |-> r, ret |-> FALSE, data |-> <<>>]
    ELSE [rb |-> [r EXCEPT !.tail = Wrap(r.tail + 1)], ret |-> TRUE,
          data |-> <<r.buffer[r.tail]>>]

\* RingBuffer::available
available(r) == Wrap(SIZE + r.head - r.tail)

\* RingBuffer::had_overflow
had_overflow(r) == [rb |-> [r EXCEPT !.overflow = FALSE], ret |-> r.overflow]

\* RingBuffer::clear
clear(r) == [r EXCEPT !.tail = r.head, !.overflow = FALSE]

\* Producer and consumer between calls.
IdleThreads == [p |-> [pc |-> "idle", next |-> 0, data |-> 0],
                c |-> [pc |-> "idle", data |-> 0],
                sunk |-> FALSE]

InitRb == rb = NewRing /\ rbt = IdleThreads

----------------------------------------------------------------------------
(* Controllers: program_change_controller.cpp, bank_select_controller.cpp.  *)
(* A controller operation maps the record c of the state it can touch       *)
(* (curr, base: program change; bank: bank select curr; sdst:               *)
(* save_delay_start_time; btn; out: MIDI sent; edits: selectors edited)     *)
(* to that record afterwards.                                               *)

MidiMax == 127
PcCcStart == 102
PcPositions == 5
AnalogMax == 1024
PcStep == 205
PcDeadband == 8
GroupStep == 5

Max2(a, b) == IF a > b THEN a ELSE b
Min2(a, b) == IF a < b THEN a ELSE b
\* max(min(x, 127), 0)
clamp(x) == Max2(Min2(x, MidiMax), 0)

pc_get_unclamped(c) == c.curr + c.base
\* ProgramChangeController::get
pc_get(c) == clamp(c.curr + c.base)

send_cc_mapping_active_only(c) ==
    IF c.curr >= 0 /\ c.curr <= 4
    THEN <<<<"control_change", PcCcStart + c.curr, MidiMax>>>>
    ELSE <<>>

\* ProgramChangeController::send_cc_mapping (NEXUS_ENABLE_PC_CC_MAPPING)
send_cc_mapping(c) ==
    IF c.curr >= 0 /\ c.curr <= 4
    THEN [i \in 1 .. PcPositions |->
            <<"control_change", PcCcStart + (i - 1),
              IF i - 1 = c.curr THEN MidiMax ELSE 0>>]
    ELSE <<>>

\* ProgramChangeController::transmit
pc_transmit(c) ==
    [c EXCEPT !.out = (@ \o <<<<"program_change", pc_get(c)>>>>) \o send_cc_mapping(c)]

\* BankSelectController::transmit
bs_transmit(c) ==
    [c EXCEPT !.out = Append(@, <<"control_change", "bank_select", c.bank>>)]

pc_load_skipped(c, s) == c
\* ProgramChangeController::load
pc_load(c, s) == IF ~empty(s) THEN [c EXCEPT !.base = read(s)] ELSE c

\* BankSelectController::load
bs_load(c, s) == IF ~empty(s) THEN [c EXCEPT !.bank = read(s)] ELSE c

NoWrite(s) ==
    [seg |-> s, full |-> FALSE, erases |-> 0, progs |-> 0, progIdx |-> NullPtr,
     progOld |-> Erased, failed |-> FALSE]

save_before_inputs(v, s, okE, okP) ==
    LET v_ == clamp(IF s = seg_b THEN pc_base ELSE bs_curr)
    IN  IF v_ # read(s) THEN write(s, v_, okE, okP) ELSE NoWrite(s)

\* ProgramChangeController::save / BankSelectController::save on value v
save_always(v, s, okE, okP) == write(s, clamp(v), okE, okP)
save_unclamped(v, s, okE, okP) ==
    IF v # read(s) THEN write(s, v % 256, okE, okP) ELSE NoWrite(s)
save(v, s, okE, okP) ==
    LET v_ == clamp(v)
    IN  IF v_ # read(s) THEN write(s, v_, okE, okP) ELSE NoWrite(s)

\* ProgramChangeController::operator()(uint32_t val_)
pc_analog(c, val_) ==
    LET curr_ == c.curr * PcStep
        d     == curr_ - val_
        diff  == IF d < 0 THEN -d ELSE d
        val   == (val_ * PcPositions) \div AnalogMax
    IN  IF diff < PcDeadband THEN c
        ELSE IF val # c.curr THEN pc_transmit([c EXCEPT !.curr = val])
        ELSE c

Press(c, name, sw, now, ub) ==
    repeat_button(c.btn[name], sw, now, ImmediateDebounce, ub)

\* ProgramChangeController::up
pc_up(c, sw, now, ub) ==
    LET r  == Press(c, "pc_up", sw, now, ub)
        c1 == [c EXCEPT !.btn["pc_up"] = r.b]
    IN  IF r.ret /\ c1.base < MidiMax
        THEN pc_transmit([c1 EXCEPT !.base = @ + 1,
                                    !.sdst = reset_save_delay(now),
                                    !.edits = @ \cup {"pc"}])
        ELSE c1

\* ProgramChangeController::down
pc_down(c, sw, now, ub) ==
    LET r  == Press(c, "pc_down", sw, now, ub)
        c1 == [c EXCEPT !.btn["pc_down"] = r.b]
    IN  IF r.ret /\ c1.base > 0
        THEN pc_transmit([c1 EXCEPT !.base = @ - 1,
                                    !.sdst = reset_save_delay(now),
                                    !.edits = @ \cup {"pc"}])
        ELSE c1

pc_group_up_unguarded(c, sw, now, ub) ==
    LET r  == Press(c, "pc_grp_up", sw, now, ub)
        c1 == [c EXCEPT !.btn["pc_grp_up"] = r.b]
    IN  IF r.ret
        THEN pc_transmit([c1 EXCEPT !.base = @ + GroupStep,
                                    !.sdst = reset_save_delay(now),
                                    !.edits = @ \cup {"pc"}])
        ELSE c1
\* ProgramChangeController::group_up
pc_group_up(c, sw, now, ub) ==
    LET r  == Press(c, "pc_grp_up", sw, now, ub)
        c1 == [c EXCEPT !.btn["pc_grp_up"] = r.b]
    IN  IF r.ret /\ c1.base < MidiMax
        THEN pc_transmit([c1 EXCEPT !.base = @ + GroupStep,
                                    !.sdst = reset_save_delay(now),
                                    !.edits = @ \cup {"pc"}])
        ELSE c1

\* ProgramChangeController::group_down
pc_group_down(c, sw, now, ub) ==
    LET r  == Press(c, "pc_grp_down", sw, now, ub)
        c1 == [c EXCEPT !.btn["pc_grp_down"] = r.b]
    IN  IF r.ret /\ c1.base > 0
        THEN pc_transmit([c1 EXCEPT !.base = @ - GroupStep,
                                    !.sdst = reset_save_delay(now),
                                    !.edits = @ \cup {"pc"}])
        ELSE c1

bs_up_unguarded(c, sw, now, ub) ==
    LET r  == Press(c, "bs_up", sw, now, ub)
        c1 == [c EXCEPT !.btn["bs_up"] = r.b]
    IN  IF r.ret
        THEN bs_transmit([c1 EXCEPT !.bank = @ + 1,
                                    !.sdst = reset_save_delay(now),
                                    !.edits = @ \cup {"bs"}])
        ELSE c1

\* BankSelectController::up
bs_up(c, sw, now, ub) ==
    LET r  == Press(c, "bs_up", sw, now, ub)
        c1 == [c EXCEPT !.btn["bs_up"] = r.b]
    IN  IF r.ret /\ c1.bank < MidiMax
        THEN bs_transmit([c1 EXCEPT !.bank = @ + 1,
                                    !.sdst = reset_save_delay(now),
                                    !.edits = @ \cup {"bs"}])
        ELSE c1

\* BankSelectController::down
bs_down(c, sw, now, ub) ==
    LET r  == Press(c, "bs_down", sw, now, ub)
        c1 == [c EXCEPT !.btn["bs_down"] = r.b]
    IN  IF r.ret /\ c1.bank > 0
        THEN bs_transmit([c1 EXCEPT !.bank = @ - 1,
                                    !.sdst = reset_save_delay(now),
                                    !.edits = @ \cup {"bs"}])
        ELSE c1

NoCall == [op |-> "none"]

\* Content left in bytes 0..n-1 by n earlier writes (values in 0..254).
FillByte(i) == (i * 37 + 11) % 255
Prefilled(n) == [i \in Idx |-> IF i < n THEN FillByte(i) ELSE Erased]
IsFull(s) == \A i \in Idx : s[i] # Erased

----------------------------------------------------------------------------
(* The state after construction of the globals *)

Segs == {"b", "c"}
NoPass == [ran |-> FALSE]

\* persistent_storage.cpp globals; millis() starts at 0
InitSched ==
    /\ clock = <<0, 0>>
    /\ save_delay_start_time = MinusOne32
    /\ pendingFor = -1

\* ControllerFactory, ProgramChangeController, BankSelectController constructors
InitCtl ==
    /\ prev_time = <<0, 0>>
    /\ pc_curr = 0
    /\ pc_base = 0
    /\ bs_curr = 0
    /\ btn = [b \in Buttons |-> NewButton]
    /\ emitted = <<>>
    /\ phase = "boot"
    /\ gt_val = 0 /\ lp_y = 0 /\ InitRb
    /\ cc = NewController

InitRun ==
    /\ pass = NoPass
    /\ quiet = -1
    /\ nProg = [s \in Segs |-> 0]
    /\ edited = {}
    /\ uptime = 0
    /\ jumped = FALSE
    /\ passed = FALSE
    /\ nInputs = 0

InitHist ==
    /\ last = NoCall
    /\ nWrites = 0
    /\ nErases = 0
    /\ burst = 0

----------------------------------------------------------------------------
(* FlashManager exercised on its own (flash_b) *)

\* The segment survives power cycles: a run starts with the n bytes that n
\* earlier writes to a fresh segment left in it.
InitFlash ==
    /\ \E n \in 0 .. SegSize :
          /\ seg_b = Prefilled(n)
          /\ nWrites = n
    /\ seg_c = ErasedSeg
    /\ last = NoCall
    /\ nErases = 0
    /\ burst = 0
    /\ InitSched /\ InitCtl /\ InitRun

\* flash_b.write(v); okE / okP: the outcome of the driver's operations.
FlashWrite(v, okE, okP) ==
    /\ burst < MaxBurst
    /\ LET w == write(seg_b, v, okE, okP)
       IN  /\ seg_b' = w.seg
           /\ last' = [op |-> "write", val |-> v, wasFull |-> IsFull(seg_b),
                       erases |-> w.erases, progs |-> w.progs,
                       progIdx |-> w.progIdx, progOld |-> w.progOld,
                       failed |-> w.failed, reported |-> FALSE,
                       readBefore |-> read(seg_b)]
           /\ nErases' = nErases + w.erases
    /\ nWrites' = nWrites + 1
    /\ burst' = burst + 1
    /\ UNCHANGED <<seg_c, schedVars, ctlVars, runVars>>

\* flash_b.erase(): the segment is fresh again.
FlashEraseCall ==
    /\ nWrites > 0
    /\ seg_b' = FlashErase(seg_b, TRUE)
    /\ last' = [op |-> "erase"]
    /\ nWrites' = 0
    /\ nErases' = 0
    /\ UNCHANGED <<seg_c, burst, schedVars, ctlVars, runVars>>

\* flash_b.empty() and flash_b.read()
FlashRead ==
    /\ last.op # "read"
    /\ last' = [op |-> "read", isEmpty |-> empty(seg_b), ret |-> read(seg_b),
                after |-> last]
    /\ UNCHANGED <<seg_b, seg_c, nWrites, nErases, burst, schedVars, ctlVars, runVars>>

\* The driver's operations take effect.
NextFlash ==
    \/ \E v \in WriteVals : FlashWrite(v, TRUE, TRUE)
    \/ FlashEraseCall
    \/ FlashRead

SpecFlash == InitFlash /\ [][NextFlash]_vars

\* The driver's program and erase operations may fail (spec: "may fail at
\* the hardware level").
NextFlashFail ==
    \/ \E v \in WriteVals, okE, okP \in BOOLEAN : FlashWrite(v, okE, okP)
    \/ FlashEraseCall
    \/ FlashRead

SpecFlashFail == InitFlash /\ [][NextFlashFail]_vars

\* read() and empty() on arbitrary segment contents: an erased suffix from
\* n on plus erased bytes at i and j, every other byte written.
InitRead ==
    /\ \E n \in 0 .. SegSize, i, j \in Idx :
          seg_b = [k \in Idx |->
                     IF k >= n \/ k = i \/ k = j THEN Erased ELSE FillByte(k)]
    /\ seg_c = ErasedSeg
    /\ InitHist
    /\ InitSched /\ InitCtl /\ InitRun

NextRead == FlashRead

SpecRead == InitRead /\ [][NextRead]_vars

----------------------------------------------------------------------------
(* The save-delay functions exercised on their own *)

\* Length in ms of the window of time explored from an anchor.
MaxWindow == 6002

SchedSteps == {1000, 2999, 3000, 3001}

\* Clock values at which the explored window may start: boot, the int32
\* sign change, and the last milliseconds before the 32-bit counter wraps.
SchedAnchors ==
    {<<0, 0>>, <<(Word \div 2) - 1, Word - 1>>, <<Word - 1, Word - 1 - save_delay>>,
     <<Word - 1, Word - save_delay>>, <<Word - 1, Word - 1>>}

runRest == <<pass, quiet, nProg, edited, jumped, passed, nInputs>>

InitSchedOnly ==
    /\ seg_b = ErasedSeg
    /\ seg_c = ErasedSeg
    /\ InitHist
    /\ InitSched /\ InitCtl /\ InitRun

\* Nothing is pending: the loop idles until the clock reads c.
SchedIdleUntil(c) ==
    /\ pendingFor = -1
    /\ c # clock
    /\ clock' = c
    /\ uptime' = 0
    /\ last' = NoCall
    /\ UNCHANGED <<save_delay_start_time, pendingFor>>
    /\ UNCHANGED <<flashVars, nWrites, nErases, burst, ctlVars, runRest>>

\* d milliseconds pass.
SchedTick(d) ==
    /\ uptime + d <= MaxWindow
    /\ clock' = U32Add(clock, d)
    /\ uptime' = uptime + d
    /\ pendingFor' = IF pendingFor = -1 THEN -1 ELSE pendingFor + d
    /\ last' = NoCall
    /\ UNCHANGED save_delay_start_time
    /\ UNCHANGED <<flashVars, nWrites, nErases, burst, ctlVars, runRest>>

\* storage::reset_save_delay()
SchedReset ==
    /\ save_delay_start_time' = reset_save_delay(clock)
    /\ pendingFor' = 0
    /\ last' = [op |-> "reset_save_delay", was |-> pendingFor]
    /\ UNCHANGED clock
    /\ UNCHANGED <<flashVars, nWrites, nErases, burst, ctlVars, runVars>>

\* storage::should_save()
SchedCheck ==
    /\ last.op # "should_save"
    /\ last' = [op |-> "should_save",
                ret |-> should_save(save_delay_start_time, clock)]
    /\ UNCHANGED <<clock, save_delay_start_time, pendingFor>>
    /\ UNCHANGED <<flashVars, nWrites, nErases, burst, ctlVars, runVars>>

\* storage::mark_saved()
SchedMarkSaved ==
    /\ pendingFor # -1
    /\ save_delay_start_time' = mark_saved
    /\ pendingFor' = -1
    /\ last' = [op |-> "mark_saved"]
    /\ UNCHANGED clock
    /\ UNCHANGED <<flashVars, nWrites, nErases, burst, ctlVars, runVars>>

NextSched ==
    \/ \E c \in SchedAnchors : SchedIdleUntil(c)
    \/ \E d \in SchedSteps : SchedTick(d)
    \/ SchedReset
    \/ SchedCheck
    \/ SchedMarkSaved

SpecSched == InitSchedOnly /\ [][NextSched]_vars

----------------------------------------------------------------------------
(* The firmware: setup (ControllerFactory::initialize) and the polling loop *)
(* (ControllerFactory::process_inputs), with the clock advancing between   *)
(* passes.                                                                 *)

\* Length in ms of the window of loop time explored.
Horizon == 5100
\* User inputs (button presses and repeats, moves of the 5-way switch)
\* explored in one run.
MaxInputs == 2

\* Time between two passes while no button is being released; the last is
\* what is left of the save delay once a pressed button has been released.
SysSteps == {1001, 3001, save_delay - samples}
\* Clock value at which the explored window may start after an idle period:
\* 3002 ms before the 32-bit counter wraps.
SysAnchors == {<<Word - 1, Word - save_delay - 2>>}
\* Conditioned readings of the 5-way switch input (positions 0 and 2).
AnalogVals == {0, 512}

\* A segment holding n bytes written by earlier saves, the last one v.
Stored(n, v) ==
    [i \in Idx |-> IF i < n - 1 THEN i % 2 ELSE IF i = n - 1 THEN v ELSE Erased]
\* What earlier runs left in <<SEGMENT_B, SEGMENT_C>>.
InitSegs ==
    {<<ErasedSeg, ErasedSeg>>, <<Stored(1, 3), ErasedSeg>>,
     <<Stored(SegSize, 125), Stored(SegSize, 126)>>}

Released == [b \in Buttons |-> FALSE]
Only(b) == [x \in Buttons |-> x = b]
\* The user presses at most one button at a time.
SwPatterns == {Released} \cup {Only(b) : b \in Buttons}

Settled(b) == btn[b].counter = 0 /\ ~btn[b].result
Releasing(b) == btn[b].result /\ btn[b].counter < samples
\* A button is pressed only while every other one is at rest, and is not
\* pressed again before its release has been debounced.
SwAllowed(sw) ==
    \A b \in Buttons :
        /\ sw[b] => \A o \in Buttons \ {b} : Settled(o)
        /\ Releasing(b) => ~sw[b]

\* Outcomes of the undefined int overflow in repeat_button that can matter.
UbChoices ==
    IF \E b \in Buttons :
          btn[b].start_time # -1 /\ btn[b].start_time + btn[b].delay > MaxInt16
    THEN BOOLEAN ELSE {FALSE}

\* process_inputs(bool test_mode = false): every caller uses the default.
TestModes == {FALSE}
AllOk == [eb |-> TRUE, pb |-> TRUE, ec |-> TRUE, pc |-> TRUE]
Outcomes == [eb : BOOLEAN, pb : BOOLEAN, ec : BOOLEAN, pc : BOOLEAN]
\* The driver's outcomes are enumerated on the passes that start with a save
\* due, the ones whose save_states() reaches the flash.
OkChoices == IF should_save(save_delay_start_time, clock) THEN Outcomes ELSE {AllOk}

Cap(x) == Min2(x, save_delay + 1)

Init ==
    /\ \E p \in InitSegs : seg_b = p[1] /\ seg_c = p[2]
    /\ InitHist
    /\ InitSched /\ InitCtl /\ InitRun

\* setup(): ControllerFactory::initialize
Initialize ==
    /\ phase = "boot"
    /\ LET c0 == [curr |-> pc_curr, base |-> pc_base, bank |-> bs_curr,
                  sdst |-> save_delay_start_time, btn |-> btn, out |-> <<>>,
                  edits |-> {}]
           c1 == pc_load(c0, seg_b)
           c2 == bs_load(c1, seg_c)
           c3 == pc_transmit(c2)
           c4 == bs_transmit(c3)
       IN  /\ pc_base' = c4.base
           /\ bs_curr' = c4.bank
           /\ emitted' = c4.out
    /\ phase' = "run"
    /\ UNCHANGED <<flashVars, histVars, schedVars, prev_time, pc_curr, btn, gt_val, lp_y, rb, rbt, cc, runVars>>

Held(b) == btn[b].result /\ btn[b].counter = samples
\* ms from now to the last instant at which a held button's repeat is not due
HoldSkip(b) == btn[b].start_time + btn[b].delay - ToInt16(clock[2])

\* Time between two passes of loop(). A pass that is skipped is one that would
\* have changed nothing: while a release is being debounced the passes are
\* 1 ms apart; while a button is held the clock moves by 1 ms right after a
\* firing or at the brink of the next one, and otherwise up to that brink
\* (a button with no repeat running is as good as at rest);
\* with every button at rest it moves by one of SysSteps.
TickSteps ==
    IF \E b \in Buttons : Releasing(b) THEN {1}
    ELSE IF \E b \in Buttons : Held(b)
    THEN UNION {IF btn[b].start_time = -1 THEN SysSteps
                ELSE (IF HoldSkip(b) > 0 /\ HoldSkip(b) <= delay_
                      THEN {HoldSkip(b)} ELSE {1})
                     \cup (IF ToInt16(clock[2]) = btn[b].start_time THEN {1} ELSE {})
                : b \in {x \in Buttons : Held(x)}}
    ELSE SysSteps

\* The clock advances by d ms between two loop passes.
Tick(d) ==
    /\ phase = "run"
    /\ passed
    /\ uptime + d <= Horizon
    /\ clock' = U32Add(clock, d)
    /\ uptime' = uptime + d
    /\ pendingFor' = IF pendingFor = -1 THEN -1 ELSE pendingFor + d
    /\ quiet' = IF quiet = -1 THEN -1 ELSE Cap(quiet + d)
    /\ passed' = FALSE
    /\ UNCHANGED <<flashVars, histVars, save_delay_start_time, ctlVars,
                   pass, nProg, edited, jumped, nInputs>>

\* Nothing pending and no button touched: the loop idles (its passes change
\* nothing but prev_time) until the clock reads c.
IdleUntil(c) ==
    /\ phase = "run"
    /\ passed
    /\ ~jumped
    /\ uptime = 0
    /\ save_delay_start_time = MinusOne32
    /\ \A b \in Buttons : Settled(b)
    /\ c # clock
    /\ clock' = c
    /\ prev_time' = U32Pred(c)
    /\ quiet' = IF quiet = -1 THEN -1 ELSE save_delay + 1
    /\ jumped' = TRUE
    /\ passed' = FALSE
    /\ UNCHANGED <<flashVars, histVars, save_delay_start_time, pendingFor,
                   pc_curr, pc_base, bs_curr, btn, emitted, phase, gt_val, lp_y, rb, rbt, cc,
                   pass, nProg, edited, uptime, nInputs>>

\* The buttons that fired in a pass that leaves them as b2: a rising edge,
\* or a repeat, which sets start_time to the time of the pass.
Fired(b2) ==
    Cardinality({b \in Buttons :
        \/ ~btn[b].prev /\ b2[b].prev
        \/ /\ btn[b].prev /\ b2[b].prev
           /\ b2[b].start_time = ToInt16(clock[2])
           /\ btn[b].start_time # ToInt16(clock[2])})

\* One pass of loop(): ControllerFactory::process_inputs(test_mode), which
\* ends with ControllerFactory::save_states. sw: the button readings (true =
\* pressed), val: the analog reading, ok: the outcomes of the flash driver's
\* operations, ub: the outcome of undefined behaviour.
Pass(test_mode, sw, val, ok, ub) ==
    /\ phase = "run"
    /\ ~passed
    /\ SwAllowed(sw)
    /\ \E runs \in {(~test_mode) /\ prev_time # clock} :
       \E c0 \in {[curr |-> pc_curr, base |-> pc_base, bank |-> bs_curr,
                   sdst |-> save_delay_start_time, btn |-> btn, out |-> <<>>,
                   edits |-> {}]} :
       \* (sustain, volume, fx1, fx2, pitch_bend and modulation keep state of
       \* their own and touch none of c)
       \E c1 \in {IF runs THEN pc_analog(c0, val) ELSE c0} :
       \E c2 \in {IF runs THEN pc_up(c1, sw["pc_up"], clock, ub) ELSE c1} :
       \E c3 \in {IF runs THEN pc_down(c2, sw["pc_down"], clock, ub) ELSE c2} :
       \E c4 \in {IF runs THEN pc_group_up(c3, sw["pc_grp_up"], clock, ub) ELSE c3} :
       \E c5 \in {IF runs THEN pc_group_down(c4, sw["pc_grp_down"], clock, ub) ELSE c4} :
       \E c6 \in {IF runs THEN bs_up(c5, sw["bs_up"], clock, ub) ELSE c5} :
       \E c7 \in {IF runs THEN bs_down(c6, sw["bs_down"], clock, ub) ELSE c6} :
       \* save_states()
       \E doSave \in {should_save(c7.sdst, clock)} :
       \E wb \in {IF doSave THEN save(c7.base, seg_b, ok.eb, ok.pb) ELSE NoWrite(seg_b)} :
       \E wc \in {IF doSave THEN save(c7.bank, seg_c, ok.ec, ok.pc) ELSE NoWrite(seg_c)} :
       \E fresh \in {c7.edits # {} /\ (quiet = -1 \/ quiet >= save_delay)} :
           /\ nInputs + Fired(c7.btn) + (IF c7.curr # pc_curr THEN 1 ELSE 0) <= MaxInputs
           /\ nInputs' = nInputs + Fired(c7.btn) + (IF c7.curr # pc_curr THEN 1 ELSE 0)
           /\ pc_curr' = c7.curr
           /\ pc_base' = c7.base
           /\ bs_curr' = c7.bank
           /\ btn' = c7.btn
           /\ emitted' = c7.out
           /\ prev_time' = IF runs THEN clock ELSE prev_time
           /\ save_delay_start_time' = IF doSave THEN mark_saved ELSE c7.sdst
           /\ seg_b' = wb.seg
           /\ seg_c' = wc.seg
           /\ pendingFor' = IF doSave THEN -1
                            ELSE IF c7.edits # {} THEN 0 ELSE pendingFor
           /\ quiet' = IF c7.edits # {} THEN 0 ELSE quiet
           /\ edited' = IF c7.edits = {} THEN edited
                        ELSE IF fresh THEN c7.edits ELSE edited \cup c7.edits
           /\ nProg' = [s \in Segs |->
                          (IF fresh THEN 0 ELSE nProg[s])
                          + (IF s = "b" THEN wb.progs ELSE wc.progs)]
           /\ pass' = [ran |-> TRUE, inputs |-> runs, edits |-> c7.edits,
                       saved |-> doSave,
                       failed |-> wb.failed \/ wc.failed,
                       progs |-> [s \in Segs |-> IF s = "b" THEN wb.progs ELSE wc.progs],
                       erases |-> [s \in Segs |-> IF s = "b" THEN wb.erases ELSE wc.erases],
                       written |-> [s \in Segs |->
                                     IF s = "b"
                                     THEN (IF wb.progs = 1 THEN wb.seg[wb.progIdx] ELSE -1)
                                     ELSE (IF wc.progs = 1 THEN wc.seg[wc.progIdx] ELSE -1)],
                       value |-> [s \in Segs |-> IF s = "b" THEN c7.base ELSE c7.bank],
                       dirty |-> (IF pass.ran /\ ~pass.saved THEN pass.dirty
                                  ELSE {}) \cup c7.edits,
                       wasEmpty |-> {s \in Segs :
                                       empty(IF s = "b" THEN seg_b ELSE seg_c)}]
    /\ passed' = TRUE
    /\ UNCHANGED <<histVars, clock, phase, uptime, jumped, gt_val, lp_y, rb, rbt, cc>>

Next ==
    \/ Initialize
    \/ \E d \in TickSteps : Tick(d)
    \/ \E c \in SysAnchors : IdleUntil(c)
    \/ \E tm \in TestModes, sw \in SwPatterns, val \in AnalogVals, ub \in UbChoices :
          Pass(tm, sw, val, AllOk, ub)

Spec == Init /\ [][Next]_vars

\* The same, with a flash driver whose operations may fail.
NextFail ==
    \/ Initialize
    \/ \E d \in TickSteps : Tick(d)
    \/ \E c \in SysAnchors : IdleUntil(c)
    \/ \E tm \in TestModes, sw \in SwPatterns, val \in AnalogVals, ok \in OkChoices,
          ub \in UbChoices :
          Pass(tm, sw, val, ok, ub)

SpecFail == Init /\ [][NextFail]_vars

\* Power is cycled once the last edit has been committed: the objects in RAM
\* are constructed anew, the flash keeps its content. last records the
\* program each switch position selected before. The run is explored up to
\* the setup() that follows.
PowerCycle ==
    /\ phase = "run"
    /\ passed
    /\ quiet # -1 /\ pendingFor = -1 /\ save_delay_start_time = MinusOne32
    /\ last' = [op |-> "power_cycle", base |-> pc_base, curr |-> pc_curr,
                programs |-> [p \in 0 .. PcPositions - 1 |->
                                pc_get([curr |-> p, base |-> pc_base])]]
    /\ clock' = <<0, 0>>
    /\ save_delay_start_time' = MinusOne32
    /\ pendingFor' = -1
    /\ prev_time' = <<0, 0>>
    /\ pc_curr' = 0
    /\ pc_base' = 0
    /\ bs_curr' = 0
    /\ btn' = [b \in Buttons |-> NewButton]
    /\ emitted' = <<>>
    /\ phase' = "boot"
    /\ UNCHANGED <<gt_val, lp_y, rb, rbt, cc>>
    /\ uptime' = Horizon
    /\ UNCHANGED <<flashVars, nWrites, nErases, burst, pass, quiet, nProg,
                   edited, jumped, passed, nInputs>>

NextCycle == Next \/ PowerCycle
SpecCycle == Init /\ [][NextCycle]_vars

----------------------------------------------------------------------------
(* The loop running for ever around one selector edit.  loop() calls        *)
(* process_inputs(), and with it save_states(), on every pass, more than    *)
(* once per millisecond; a pass on which no input changes and should_save() *)
(* is false changes nothing, and such passes are skipped: the clock moves   *)
(* on to a later instant before which should_save() stays false.            *)

\* Clock values at which the edit may be made.
LiveAnchors ==
    {<<0, 0>>, <<(Word \div 2) - 1, Word - 1>>,
     <<Word - 1, Word - 2 - save_delay>>, <<Word - 1, Word - 1 - save_delay>>,
     <<Word - 1, Word - save_delay>>, <<Word - 1, Word - 1>>}

\* The button operations: selector and step.
LiveEdits ==
    {<<"pc", 1>>, <<"pc", -1>>, <<"pc", GroupStep>>, <<"pc", -GroupStep>>,
     <<"bs", 1>>, <<"bs", -1>>}

\* The clock value after which should_save() is true.
DueAfter == U32Add(save_delay_start_time, save_delay)

\* should_save() is false at every instant after now up to the instant
\* before c.
NothingDueBefore(c) ==
    \/ save_delay_start_time = MinusOne32
    \/ DueAfter = MinusOne32
    \/ /\ U32Gt(c, clock)
       /\ ~U32Gt(c, U32Add(DueAfter, 1))

\* Passes that change nothing, until the clock reads c.
LiveAdvance(c) ==
    /\ phase = "run"
    /\ ~should_save(save_delay_start_time, clock)
    /\ c # clock
    /\ NothingDueBefore(c)
    /\ clock' = c
    /\ prev_time' = U32Pred(c)
    /\ UNCHANGED <<flashVars, histVars, save_delay_start_time, pendingFor,
                   pc_curr, pc_base, bs_curr, btn, emitted, phase, gt_val,
                   lp_y, rb, rbt, cc, runVars>>

\* The pass on which a button operation fires and passes its guard:
\* up / down / group_up / group_down of either selector. It is the only edit
\* of the run.
LiveEdit(e) ==
    /\ phase = "run"
    /\ nInputs = 0
    /\ \E c0 \in {[curr |-> pc_curr, base |-> pc_base, bank |-> bs_curr,
                   sdst |-> reset_save_delay(clock), btn |-> btn,
                   out |-> <<>>, edits |-> {e[1]}]} :
       \E c1 \in {IF e[1] = "pc"
                  THEN pc_transmit([c0 EXCEPT !.base = @ + e[2]])
                  ELSE bs_transmit([c0 EXCEPT !.bank = @ + e[2]])} :
          /\ IF e[1] = "pc"
             THEN IF e[2] > 0 THEN pc_base < MidiMax ELSE pc_base > 0
             ELSE IF e[2] > 0 THEN bs_curr < MidiMax ELSE bs_curr > 0
          /\ pc_base' = c1.base
          /\ bs_curr' = c1.bank
          /\ emitted' = c1.out
          /\ save_delay_start_time' = c1.sdst
    /\ pendingFor' = 0
    /\ nInputs' = 1
    /\ prev_time' = clock
    /\ UNCHANGED <<flashVars, histVars, clock, pc_curr, btn, phase, gt_val,
                   lp_y, rb, rbt, cc, pass, quiet, nProg, edited, uptime,
                   jumped, passed>>

\* The pass on which should_save() is true: save_states() saves both
\* selectors and calls mark_saved(); the flash operations succeed.
LiveCommit ==
    /\ phase = "run"
    /\ should_save(save_delay_start_time, clock)
    /\ seg_b' = save(pc_base, seg_b, TRUE, TRUE).seg
    /\ seg_c' = save(bs_curr, seg_c, TRUE, TRUE).seg
    /\ save_delay_start_time' = mark_saved
    /\ pendingFor' = -1
    /\ prev_time' = clock
    /\ UNCHANGED <<histVars, clock, pc_curr, pc_base, bs_curr, btn, emitted,
                   phase, gt_val, lp_y, rb, rbt, cc, runVars>>

NextLive ==
    \/ Initialize
    \/ \E c \in LiveAnchors \cup {U32Add(DueAfter, 1)} : LiveAdvance(c)
    \/ \E e \in LiveEdits : LiveEdit(e)
    \/ LiveCommit

\* The loop keeps running: the clock keeps advancing, and a pass on which a
\* save is due is made.
SpecLive ==
    /\ Init /\ [][NextLive]_vars
    /\ WF_vars(\E c \in LiveAnchors \cup {U32Add(DueAfter, 1)} : LiveAdvance(c))
    /\ WF_vars(LiveCommit)

----------------------------------------------------------------------------
(* Startup alone: setup() on segments left at any fill level by earlier runs *)

\* Values last saved by earlier runs.
BootVals == {0, 77, 127}

InitBoot ==
    /\ \E n, m \in 0 .. SegSize : \E v, w \in BootVals :
          seg_b = Stored(n, v) /\ seg_c = Stored(m, w)
    /\ InitHist
    /\ InitSched /\ InitCtl /\ InitRun

NextBoot == Initialize

SpecBoot == InitBoot /\ [][NextBoot]_vars

----------------------------------------------------------------------------
(* A debouncer<> exercised on its own: the debouncer part of the button     *)
(* object btn[UnitButton] is fed one raw reading per call; last records the *)
(* readings fed so far.                                                     *)

\* Readings fed in one run.
MaxFeed == 14

UnitButton == "pc_up"

\* A button held long enough for its debounced state to have become true.
SettledTrue ==
    [NewButton EXCEPT !.counter = samples, !.result = TRUE, !.prev = TRUE]

\* Number of equal readings that end the sequence f.
RECURSIVE RunLen(_)
RunLen(f) ==
    IF Len(f) <= 1 THEN Len(f)
    ELSE IF f[Len(f)] = f[Len(f) - 1]
         THEN 1 + RunLen(SubSeq(f, 1, Len(f) - 1))
         ELSE 1

InitOthers ==
    /\ seg_b = ErasedSeg /\ seg_c = ErasedSeg
    /\ nWrites = 0 /\ nErases = 0 /\ burst = 0
    /\ InitSched /\ InitRun
    /\ prev_time = <<0, 0>> /\ pc_curr = 0 /\ pc_base = 0 /\ bs_curr = 0
    /\ emitted = <<>> /\ phase = "boot" /\ gt_val = 0 /\ lp_y = 0

InitUnit == InitOthers /\ InitRb /\ cc = NewController

\* The debouncer starts as constructed or settled in the true state.
InitDeb ==
    /\ InitUnit
    /\ \E b0 \in {NewButton, SettledTrue} :
          /\ btn = [b \in Buttons |-> IF b = UnitButton THEN b0 ELSE NewButton]
          /\ last = [op |-> "none", start |-> b0.result, fed |-> <<>>,
                     was |-> b0.result]

\* debouncer::operator()(sw) under the given policy
DebFeed(sw, immediate) ==
    /\ Len(last.fed) < MaxFeed
    /\ btn' = [btn EXCEPT ![UnitButton] = debouncer(@, sw, immediate)]
    /\ last' = [op |-> "debouncer", start |-> last.start,
                fed |-> Append(last.fed, sw), was |-> btn[UnitButton].result]
    /\ UNCHANGED <<flashVars, nWrites, nErases, burst, schedVars, prev_time,
                   pc_curr, pc_base, bs_curr, emitted, phase, gt_val, lp_y, rb, rbt, cc, runVars>>

\* Standard policy (NEXUS_ENABLE_IMMEDIATE_DEBOUNCE not defined)
NextDeb == \E sw \in BOOLEAN : DebFeed(sw, FALSE)
SpecDeb == InitDeb /\ [][NextDeb]_vars

\* Immediate-press policy (NEXUS_ENABLE_IMMEDIATE_DEBOUNCE defined)
NextDebImm == \E sw \in BOOLEAN : DebFeed(sw, TRUE)
SpecDebImm == InitDeb /\ [][NextDebImm]_vars

----------------------------------------------------------------------------
(* An edge_detector<> exercised on its own, built with either debounce      *)
(* policy; last.edges lists the non-zero results returned so far (a         *)
(* detector that starts settled in the true state has returned one 1).      *)

InitEdge ==
    /\ InitUnit
    /\ \E b0 \in {NewButton, SettledTrue} : \E immediate \in BOOLEAN :
          /\ btn = [b \in Buttons |-> IF b = UnitButton THEN b0 ELSE NewButton]
          /\ last = [op |-> "none", immediate |-> immediate, fed |-> <<>>,
                     was |-> b0.result, ret |-> 0,
                     edges |-> IF b0.result THEN <<1>> ELSE <<>>]

\* edge_detector::operator()(sw)
EdgeFeed(sw) ==
    /\ Len(last.fed) < MaxFeed
    /\ \E e \in {edge_detector(btn[UnitButton], sw, last.immediate)} :
          /\ btn' = [btn EXCEPT ![UnitButton] = e.b]
          /\ last' = [op |-> "edge_detector", immediate |-> last.immediate,
                      fed |-> Append(last.fed, sw),
                      was |-> btn[UnitButton].result, ret |-> e.ret,
                      edges |-> IF e.ret # 0 THEN Append(last.edges, e.ret)
                                ELSE last.edges]
    /\ UNCHANGED <<flashVars, nWrites, nErases, burst, schedVars, prev_time,
                   pc_curr, pc_base, bs_curr, emitted, phase, gt_val, lp_y, rb, rbt, cc, runVars>>

NextEdge == \E sw \in BOOLEAN : EdgeFeed(sw)
SpecEdge == InitEdge /\ [][NextEdge]_vars

----------------------------------------------------------------------------
(* A repeat_button<> exercised on its own as the firmware builds it: called *)
(* once per millisecond with the switch closed for HoldMs milliseconds and  *)
(* open afterwards; last.fires lists the times (ms since the press) of the  *)
(* calls that returned true.                                                *)

\* initial_delay + 3 x repeat_rate
HoldMs == delay_ + 3 * rate

\* Calls made after the switch opens: the release debounce and one more.
TailCalls == samples + 2

\* millis() at the press: ordinary values, and values for which the low
\* word, or start_time + delay, reaches the ends of int during the hold.
RepAnchors ==
    { <<0, 0>>, <<1, delay_>>, <<0, Word - rate>>,
      <<0, MaxInt16 - delay_>>, <<0, MaxInt16 - delay_ + 1>>,
      <<0, Word - 1>>, <<0, Word - delay_ - 2>> }

InitRep ==
    /\ seg_b = ErasedSeg /\ seg_c = ErasedSeg
    /\ nWrites = 0 /\ nErases = 0 /\ burst = 0
    /\ clock \in RepAnchors
    /\ save_delay_start_time = MinusOne32 /\ pendingFor = -1
    /\ InitRun
    /\ prev_time = <<0, 0>> /\ pc_curr = 0 /\ pc_base = 0 /\ bs_curr = 0
    /\ emitted = <<>> /\ phase = "boot" /\ gt_val = 0 /\ lp_y = 0 /\ InitRb
    /\ cc = NewController
    /\ btn = [b \in Buttons |-> NewButton]
    /\ \E ub \in BOOLEAN :
          last = [op |-> "none", t |-> 0, fires |-> <<>>, ub |-> ub]

\* repeat_button::operator()(sw) at millis() = clock; the next call is made
\* one millisecond later.
RepCall ==
    /\ last.t <= HoldMs + TailCalls
    /\ \E r \in {repeat_button(btn[UnitButton], last.t <= HoldMs, clock,
                                ImmediateDebounce, last.ub)} :
          /\ btn' = [btn EXCEPT ![UnitButton] = r.b]
          /\ last' = [op |-> "repeat_button", t |-> last.t + 1,
                      fires |-> IF r.ret THEN Append(last.fires, last.t)
                                ELSE last.fires,
                      ub |-> last.ub]
    /\ clock' = U32Add(clock, 1)
    /\ UNCHANGED <<flashVars, nWrites, nErases, burst, save_delay_start_time,
                   pendingFor, prev_time, pc_curr, pc_base, bs_curr, emitted,
                   phase, gt_val, lp_y, rb, rbt, cc, runVars>>

NextRep == RepCall
SpecRep == InitRep /\ [][NextRep]_vars

----------------------------------------------------------------------------
(* A gate<noise_window, int32_t> exercised on its own; last records the     *)
(* sample of the call, the value of val before it and what it returned.     *)

\* Samples fed to the gate lie in -MaxSample .. MaxSample.
MaxSample == 12

InitGate ==
    /\ InitUnit
    /\ btn = [b \in Buttons |-> NewButton]
    /\ last = [op |-> "none", s |-> 0, ref |-> 0, ret |-> FALSE]

\* gate::operator()(s)
GateCall(s) ==
    /\ \E g \in {gate(gt_val, s)} :
          /\ gt_val' = g.val
          /\ last' = [op |-> "gate", s |-> s, ref |-> gt_val, ret |-> g.ret]
    /\ UNCHANGED <<flashVars, nWrites, nErases, burst, schedVars, prev_time,
                   pc_curr, pc_base, bs_curr, btn, emitted, phase, lp_y, rb, rbt, cc,
                   runVars>>

NextGate == \E s \in -MaxSample .. MaxSample : GateCall(s)
SpecGate == InitGate /\ [][NextGate]_vars

----------------------------------------------------------------------------
(* A lowpass<k, int32_t> exercised on its own, with k = 8 (lp1) or k = 16   *)
(* (lp2): it is fed arbitrary samples, and from some call on the same       *)
(* sample on every call (last.const). last.far records that an output of    *)
(* the constant stream was further than 1 from the sample.                  *)

\* The filter coefficients the controllers use.
LpCoeffs == {8, 16}

\* Samples fed: both ends of the ADC range and a value between.
LpSamples == {0, 100, AnalogMax - 1}

Abs(x) == IF x < 0 THEN -x ELSE x

InitLp ==
    /\ InitUnit
    /\ btn = [b \in Buttons |-> NewButton]
    /\ \E k \in LpCoeffs :
          last = [op |-> "none", k |-> k, s |-> 0, out |-> 0,
                  const |-> FALSE, far |-> FALSE]

\* lowpass::operator()(s); const: this call belongs to the constant stream
LpCall(s, const) ==
    /\ \E f \in {lowpass(lp_y, s, last.k)} :
          /\ lp_y' = f.y
          /\ last' = [op |-> "lowpass", k |-> last.k, s |-> s, out |-> f.out,
                      const |-> const,
                      far |-> const /\ (last.far \/ Abs(f.out - s) > 1)]
    /\ UNCHANGED <<flashVars, nWrites, nErases, burst, schedVars, prev_time,
                   pc_curr, pc_base, bs_curr, btn, emitted, phase, gt_val, rb, rbt, cc,
                   runVars>>

\* A call with an arbitrary sample, before the constant stream begins.
LpFeed == ~last.const /\ \E s \in LpSamples : LpCall(s, FALSE)

\* The first call of the constant stream.
LpBegin == ~last.const /\ \E s \in LpSamples : LpCall(s, TRUE)

\* A further call of the constant stream.
LpHold == last.const /\ LpCall(last.s, TRUE)

NextLp == LpFeed \/ LpBegin \/ LpHold
SpecLp == InitLp /\ [][NextLp]_vars /\ WF_vars(LpHold)

----------------------------------------------------------------------------
(* ProgramChangeController::operator()(val_) exercised on its own: the      *)
(* reading first moves freely, then fluctuates inside a window narrower     *)
(* than the dead band, lo .. lo + PcDeadband - 1. emitted holds the         *)
(* messages of the last call; last records the reading, the position        *)
(* before the call and, for the window, the number of position changes and  *)
(* whether the position came back to one it had left.                       *)

\* Margin, in counts, explored on each side of a position's threshold.
MaxMargin == 9

\* Readings of the free phase: the ends and the middle of the range and the
\* readings next to each position's threshold.
PcFree ==
    {0, AnalogMax \div 2, AnalogMax - 1}
        \cup {p * PcStep + d : p \in 1 .. PcPositions - 1, d \in {-1, 0}}

\* Lowest readings of the windows explored.
PcLows ==
    {lo \in 0 .. AnalogMax - PcDeadband :
        \E p \in 0 .. PcPositions - 1 :
            lo \in p * PcStep - MaxMargin .. p * PcStep + MaxMargin}

InitPc ==
    /\ InitUnit
    /\ btn = [b \in Buttons |-> NewButton]
    /\ last = [op |-> "none", val |-> 0, from |-> 0, lo |-> -1,
               changes |-> 0, left |-> {}, back |-> FALSE]

\* operator()(val) with the reading val; lo: the window it belongs to, -1
\* in the free phase
PcCall(val, lo) ==
    /\ \E c \in {pc_analog([curr |-> pc_curr, base |-> pc_base,
                             bank |-> bs_curr,
                             sdst |-> save_delay_start_time, btn |-> btn,
                             out |-> <<>>, edits |-> {}], val)} :
          /\ pc_curr' = c.curr
          /\ emitted' = c.out
          /\ last' = [op |-> "analog", val |-> val, from |-> pc_curr,
                      lo |-> lo,
                      changes |-> IF lo = -1 THEN 0
                                  ELSE last.changes
                                       + (IF c.curr # pc_curr THEN 1 ELSE 0),
                      left |-> IF lo = -1 THEN {}
                               ELSE IF c.curr # pc_curr
                               THEN last.left \cup {pc_curr}
                               ELSE last.left,
                      back |-> lo # -1
                               /\ (last.back \/ c.curr \in last.left)]
    /\ UNCHANGED <<flashVars, nWrites, nErases, burst, schedVars, prev_time,
                   pc_base, bs_curr, btn, phase, gt_val, lp_y, rb, rbt, cc, runVars>>

\* The reading moves freely.
PcMove == last.lo = -1 /\ \E val \in PcFree : PcCall(val, -1)

\* The reading settles into a window and fluctuates inside it.
PcFluctuate ==
    \E lo \in PcLows :
        /\ last.lo \in {-1, lo}
        /\ \E val \in lo .. lo + PcDeadband - 1 : PcCall(val, lo)

NextPc == PcMove \/ PcFluctuate
SpecPc == InitPc /\ [][NextPc]_vars

----------------------------------------------------------------------------
(* RingBuffer with a producer inside put() and a consumer inside get(),     *)
(* their statements interleaved.  head, tail and overflow are volatile,     *)
(* buffer[] is not, and nothing else orders the two sides: the access to    *)
(* buffer[] is ordered with the volatile accesses around it only by the     *)
(* compiler's choice.  rbt.sunk tells which order the build has: program    *)
(* order, or the buffer[] access moved below the volatile store that        *)
(* follows it.  last records the bytes accepted so far, how many have been  *)
(* consumed and returned, and whether every byte returned was the next of   *)
(* the bytes accepted (fifo).                                               *)

\* Calls of put() made in one run.
MaxPuts == 66

InitRbThreads ==
    /\ InitOthers /\ cc = NewController
    /\ btn = [b \in Buttons |-> NewButton]
    /\ rb = NewRing
    /\ rbt \in {[IdleThreads EXCEPT !.sunk = b] : b \in BOOLEAN}
    /\ last = [op |-> "new", nput |-> 0, accepted |-> <<>>, consumed |-> 0,
               returned |-> 0, fifo |-> TRUE]

RbOthers == <<flashVars, nWrites, nErases, burst, schedVars, prev_time,
              pc_curr, pc_base, bs_curr, btn, phase, gt_val, lp_y, cc,
              runVars>>

\* get() returns true with the byte data.
Returned(data) ==
    [last EXCEPT !.op = "get",
                 !.returned = @ + 1,
                 !.fifo = /\ @
                          /\ last.returned < Len(last.accepted)
                          /\ data = last.accepted[last.returned + 1]]

\* put(data), up to the test: next = (head + 1) & (SIZE - 1);
\* if (next == tail) { overflow = true; return false; }
\* The byte put by the n-th call is n.
PutBegin ==
    /\ rbt.p.pc = "idle" /\ last.nput < MaxPuts
    /\ LET next == Wrap(rb.head + 1)
           data == last.nput + 1 IN
       IF next = rb.tail
       THEN /\ rb' = [rb EXCEPT !.overflow = TRUE]
            /\ rbt' = rbt
            /\ last' = [last EXCEPT !.op = "put", !.nput = data]
       ELSE /\ rb' = rb
            /\ rbt' = [rbt EXCEPT !.p = [pc |-> IF rbt.sunk THEN "publish"
                                                ELSE "store",
                                         next |-> next, data |-> data]]
            /\ last' = [last EXCEPT !.op = "put", !.nput = data]
    /\ UNCHANGED <<RbOthers, emitted>>

\* buffer[head] = data; the index was read before head = next in either order
PutStore ==
    /\ rbt.p.pc = "store"
    /\ rb' = [rb EXCEPT !.buffer[Wrap(rbt.p.next + SIZE - 1)] = rbt.p.data]
    /\ rbt' = [rbt EXCEPT !.p.pc = IF rbt.sunk THEN "idle" ELSE "publish"]
    /\ last' = [last EXCEPT !.op = "put"]
    /\ UNCHANGED <<RbOthers, emitted>>

\* head = next; return true: the byte is accepted
PutPublish ==
    /\ rbt.p.pc = "publish"
    /\ rb' = [rb EXCEPT !.head = rbt.p.next]
    /\ rbt' = [rbt EXCEPT !.p.pc = IF rbt.sunk THEN "store" ELSE "idle"]
    /\ last' = [last EXCEPT !.op = "put",
                            !.accepted = Append(@, rbt.p.data)]
    /\ UNCHANGED <<RbOthers, emitted>>

\* get(data), up to the test: if (head == tail) return false;
GetBegin ==
    /\ rbt.c.pc = "idle"
    /\ IF rb.head = rb.tail
       THEN /\ rbt' = rbt
            /\ last' = [last EXCEPT !.op = "get_empty"]
       ELSE /\ rbt' = [rbt EXCEPT !.c = [pc |-> IF rbt.sunk THEN "advance"
                                                ELSE "load",
                                         data |-> rb.tail]]
            /\ last' = [last EXCEPT !.op = "get"]
    /\ rb' = rb
    /\ UNCHANGED <<RbOthers, emitted>>

\* data = buffer[tail]; until then rbt.c.data holds the index read
GetLoad ==
    /\ rbt.c.pc = "load"
    /\ rb' = rb
    /\ rbt' = [rbt EXCEPT !.c.pc = IF rbt.sunk THEN "idle" ELSE "advance",
                          !.c.data = rb.buffer[rbt.c.data]]
    /\ last' = IF rbt.sunk THEN Returned(rb.buffer[rbt.c.data])
                ELSE [last EXCEPT !.op = "get"]
    /\ UNCHANGED <<RbOthers, emitted>>

\* tail = (tail + 1) & (SIZE - 1); return true
GetAdvance ==
    /\ rbt.c.pc = "advance"
    /\ rb' = [rb EXCEPT !.tail = Wrap(rb.tail + 1)]
    /\ rbt' = [rbt EXCEPT !.c.pc = IF rbt.sunk THEN "load" ELSE "idle"]
    /\ \E l \in {IF rbt.sunk THEN [last EXCEPT !.op = "get"]
                 ELSE Returned(rbt.c.data)} :
          last' = [l EXCEPT !.consumed = @ + 1]
    /\ UNCHANGED <<RbOthers, emitted>>

NextRb ==
    \/ PutBegin \/ PutStore \/ PutPublish
    \/ GetBegin \/ GetLoad \/ GetAdvance
SpecRb == InitRbThreads /\ [][NextRb]_vars

----------------------------------------------------------------------------
(* RingBuffer called from one context, each call run to its end.  last      *)
(* records the call, what it returned, the object before it, and whether    *)
(* a put has failed since the last had_overflow() or clear().               *)

InitRbCalls ==
    /\ InitOthers /\ cc = NewController
    /\ btn = [b \in Buttons |-> NewButton]
    /\ InitRb
    /\ last = [op |-> "new", ret |-> FALSE, data |-> 0, before |-> NewRing,
               failed |-> FALSE, failedBefore |-> FALSE, nput |-> 0]

RbPut ==
    /\ last.nput < MaxPuts
    /\ \E p \in {put(rb, last.nput + 1)} :
          /\ rb' = p.rb
          /\ last' = [op |-> "put", ret |-> p.ret, data |-> last.nput + 1,
                      before |-> rb, failed |-> last.failed \/ ~p.ret,
                      failedBefore |-> last.failed, nput |-> last.nput + 1]
    /\ UNCHANGED <<RbOthers, emitted, rbt>>

RbGet ==
    /\ \E g \in {get(rb)} :
          /\ rb' = g.rb
          /\ last' = [last EXCEPT !.op = "get", !.ret = g.ret,
                                  !.data = IF g.ret THEN g.data[1] ELSE 0,
                                  !.before = rb,
                                  !.failedBefore = last.failed]
    /\ UNCHANGED <<RbOthers, emitted, rbt>>

RbHadOverflow ==
    /\ \E h \in {had_overflow(rb)} :
          /\ rb' = h.rb
          /\ last' = [last EXCEPT !.op = "had_overflow", !.ret = h.ret,
                                  !.data = 0, !.before = rb,
                                  !.failed = FALSE,
                                  !.failedBefore = last.failed]
    /\ UNCHANGED <<RbOthers, emitted, rbt>>

\* clear() of a buffer that holds something
RbClear ==
    /\ rb.head # rb.tail \/ rb.overflow
    /\ rb' = clear(rb)
    /\ last' = [last EXCEPT !.op = "clear", !.ret = FALSE, !.data = 0,
                            !.before = rb, !.failed = FALSE,
                            !.failedBefore = last.failed]
    /\ UNCHANGED <<RbOthers, emitted, rbt>>

NextRbCalls == RbPut \/ RbGet \/ RbHadOverflow \/ RbClear
SpecRbCalls == InitRbCalls /\ [][NextRbCalls]_vars

----------------------------------------------------------------------------
(* DebugLogger (debug_logger.hpp): log calls and flush() calls from the     *)
(* main loop, in any order.  emitted is what flush() has written to         *)
(* midi_out.                                                                *)

\* Log calls made in one run.
MaxLogs == 7

DEBUG_PAYLOAD_SIZE == 8
SYSEX_MESSAGE_SIZE == DEBUG_PAYLOAD_SIZE + 5
SysExStart == 240
SysExEnd == 247
FlushMax == 32

\* The message types logged: LOG_SYSTEM, LOG_CONTROL.
LogTypes == {1, 2}

\* midi::sysex<8> msg(0x7D4E, payload): F0, 00, ID_MSB, ID_LSB, payload, F7;
\* payload: type, timestamp MSB, LSB, five data bytes, all & 0x7F
sysex(type) ==
    <<SysExStart, 0, 125, 78, type, 0, 0, type, 0, 0, 0, 0, SysExEnd>>

\* DebugLogger::buffer_sysex
RECURSIVE buffer_sysex(_, _)
buffer_sysex(r, msg) ==
    IF msg = <<>> THEN r
    ELSE LET p == put(r, Head(msg)) IN
         IF ~p.ret THEN p.rb ELSE buffer_sysex(p.rb, Tail(msg))

\* DebugLogger::flush with max_bytes bytes still allowed; out: written so far
RECURSIVE flush(_, _, _)
flush(r, out, max_bytes) ==
    IF max_bytes = 0 THEN [rb |-> r, out |-> out]
    ELSE LET g == get(r) IN
         IF ~g.ret THEN [rb |-> r, out |-> out]
         ELSE flush(g.rb, out \o g.data, max_bytes - 1)

InitLog ==
    /\ InitOthers /\ cc = NewController
    /\ btn = [b \in Buttons |-> NewButton]
    /\ InitRb
    /\ last = [op |-> "init", n |-> 0, logs |-> 0, lost |-> FALSE]

\* log_system / log_control / log_memory / log_error
LogMsg ==
    /\ last.logs < MaxLogs
    /\ \E type \in LogTypes :
          \E r \in {buffer_sysex(rb, sysex(type))} :
             /\ rb' = r
             /\ last' = [op |-> "log", n |-> 0, logs |-> last.logs + 1,
                         lost |-> last.lost \/ available(r) <
                                    available(rb) + SYSEX_MESSAGE_SIZE]
    /\ UNCHANGED <<RbOthers, emitted, rbt>>

\* flush()
LogFlush ==
    /\ \E f \in {flush(rb, <<>>, FlushMax)} :
          /\ rb' = f.rb
          /\ emitted' = emitted \o f.out
          /\ last' = [last EXCEPT !.op = "flush", !.n = Len(f.out)]
    /\ UNCHANGED <<RbOthers, rbt>>

\* check_overflow(), when a message has been cut short
LogCheckOverflow ==
    /\ rb.overflow
    /\ \E h \in {had_overflow(rb)} :
          /\ rb' = h.rb
          /\ last' = [last EXCEPT !.op = "check_overflow", !.n = 0]
    /\ UNCHANGED <<RbOthers, emitted, rbt>>

NextLog == LogMsg \/ LogFlush \/ LogCheckOverflow
SpecLog == InitLog /\ [][NextLog]_vars

----------------------------------------------------------------------------
(* A continuous controller exercised on its own: Controller<ctrl> or        *)
(* PitchBendController (last.kind), called once per tick with the raw       *)
(* reading.  The run starts with the control at rest at some reading, the   *)
(* filters settled there; emitted is what the last call sent.               *)

\* Ticks made in one run.
MaxTicks == 9

\* Highest raw reading of the 10-bit converter.
AdcMax == AnalogMax - 1

\* Raw readings fed, and readings at which the control rests at first.
CcSamples == {0, 512, AdcMax}
CcRest == CcSamples

\* The members after operator() has been called with the reading val_ until
\* they no longer change.
RECURSIVE AtRest(_, _)
AtRest(c, val_) ==
    LET f == filter_chain(c, val_)
    IN  IF f.c = c THEN c ELSE AtRest(f.c, val_)

InitCc ==
    /\ InitOthers /\ InitRb
    /\ btn = [b \in Buttons |-> NewButton]
    /\ \E kind \in {"controller", "pitch_bend"}, r \in CcRest :
          /\ cc = AtRest(NewController, r)
          /\ last = [op |-> "rest", kind |-> kind, val_ |-> r, out1 |-> r,
                      val |-> r, fired |-> FALSE, ticks |-> 0]

\* operator()(val_)
CcCall(val_) ==
    /\ last.ticks < MaxTicks
    /\ \E f \in {filter_chain(cc, val_)} :
          /\ cc' = f.c
          /\ emitted' = IF ~f.fired THEN <<>>
                        ELSE IF last.kind = "controller"
                        THEN controller_messages(f.val)
                        ELSE pitch_bend_messages(f.val)
          /\ last' = [op |-> "call", kind |-> last.kind, val_ |-> val_,
                      out1 |-> f.out1, val |-> f.val, fired |-> f.fired,
                      ticks |-> last.ticks + 1]
    /\ UNCHANGED <<flashVars, nWrites, nErases, burst, schedVars, prev_time,
                   pc_curr, pc_base, bs_curr, btn, phase, gt_val, lp_y, rb,
                   rbt, runVars>>

NextCc == \E val_ \in CcSamples : CcCall(val_)
SpecCc == InitCc /\ [][NextCc]_vars

----------------------------------------------------------------------------
(* Claims about the wear-levelled store *)

\* C1: with the driver succeeding, write(v) followed immediately by read()
\* returns v, from every fill level of the segment (the full one included).
C1_WriteReadRoundTrip ==
    (last.op = "read" /\ last.after.op = "write") => last.ret = last.after.val

\* C1 witness: a read right after a write that found the segment full.
C1_Witness ==
    /\ last.op = "read"
    /\ last.after.op = "write"
    /\ last.after.wasFull
    /\ last.ret = last.after.val

\* C2: write erases iff no byte was erased when it was called, does one
\* byte-program per call, does no erase in the first 64 writes to a fresh
\* segment, erases exactly once in the 65th and programs index 0 there, and
\* never erases more than once per 64 writes.
C2_EraseOnlyWhenFull ==
    last.op = "write" =>
        /\ (last.erases = 1) <=> last.wasFull
        /\ last.erases \in {0, 1}
        /\ last.progs = 1
        /\ (nWrites <= SegSize => nErases = 0)
        /\ (nWrites = SegSize + 1 =>
                nErases = 1 /\ last.erases = 1 /\ last.progIdx = 0)
        /\ nErases * SegSize < nWrites

\* C2 witness: the 65th write to a fresh segment has just erased it.
C2_Witness ==
    /\ last.op = "write"
    /\ nWrites = SegSize + 1
    /\ nErases = 1
    /\ last.progIdx = 0

\* C3: with the driver succeeding, a byte-program is only ever applied to an
\* erased byte, and a written byte changes only in a step that erases the
\* whole segment.
C3_WriteOnce ==
    [][ /\ last'.op = "write" => last'.progOld = Erased
        /\ \A i \in Idx :
              (seg_b[i] # Erased /\ seg_b'[i] # seg_b[i]) =>
                  /\ (last'.op = "erase" \/ (last'.op = "write" /\ last'.erases = 1))
                  /\ \A k \in Idx : seg_b[k] # Erased
                        \/ last'.op = "erase" ]_vars

\* C3 witness: a write found the segment full, erased it and programmed the
\* (now erased) byte 0.
C3_Witness ==
    /\ last.op = "write"
    /\ last.wasFull
    /\ last.progOld = Erased
    /\ seg_b[0] = last.val
    /\ seg_b[1] = Erased

\* The value read() is specified to return, over any segment content.
ReadSpec(s) ==
    LET E == {i \in Idx : s[i] = Erased}
    IN  IF s[0] = Erased THEN Erased
        ELSE IF E = {} THEN s[SegSize - 1]
        ELSE s[(CHOOSE i \in E : \A k \in E : i <= k) - 1]

\* C4: empty() is true iff byte 0 is 0xFF, and read() returns 0xFF if byte 0
\* is 0xFF, else the byte before the lowest-index 0xFF byte, else byte 63.
C4_ReadValue ==
    last.op = "read" =>
        /\ last.isEmpty = (seg_b[0] = Erased)
        /\ last.ret = ReadSpec(seg_b)

\* C4 witness: a read of a segment with a written byte after its first
\* erased byte.
C4_Witness ==
    /\ last.op = "read"
    /\ seg_b[0] # Erased
    /\ \E i, k \in Idx : i < k /\ seg_b[i] = Erased /\ seg_b[k] # Erased
    /\ last.ret = ReadSpec(seg_b)

\* C5 (as claimed): a write during which a program or erase operation fails
\* leaves read() as it was before the call and reports the failure.
C5_FailedWriteKeepsValue ==
    (last.op = "write" /\ last.failed) =>
        /\ read(seg_b) = last.readBefore
        /\ last.reported

----------------------------------------------------------------------------
(* Claims about the save delay *)

\* C6 (as claimed): should_save() is true exactly when a change is pending
\* (reset_save_delay called, mark_saved not yet) and more than save_delay ms
\* have passed since that reset_save_delay, for every clock value.
C6_ShouldSaveThreshold ==
    last.op = "should_save" =>
        (last.ret <=> (pendingFor # -1 /\ pendingFor > save_delay))

----------------------------------------------------------------------------
(* Claims about the selectors and their deferred save *)

\* The selector persisted in a segment, its in-memory value and its segment.
SelOf(s) == IF s = "b" THEN "pc" ELSE "bs"
ValueOf(s) == IF s = "b" THEN pc_base ELSE bs_curr
SegOf(s) == IF s = "b" THEN seg_b ELSE seg_c

\* C7 (as claimed): the edits of one burst (consecutive edits less than
\* save_delay apart) cause at most one byte-program on the edited selector's
\* segment, and once more than save_delay ms without an edit have passed and
\* a loop pass has run, the segment holds the final clamped value.
C7_EditsCoalesce ==
    \A s \in Segs :
        SelOf(s) \in edited =>
            /\ nProg[s] <= 1
            /\ (passed /\ quiet > save_delay) => read(SegOf(s)) = clamp(ValueOf(s))

\* C8 (as claimed): a pass whose save_states() met a failing flash write
\* does not call mark_saved: the save stays pending.
C8_FailedSaveStaysPending ==
    (passed /\ pass.ran /\ pass.saved /\ pass.failed) =>
        save_delay_start_time # MinusOne32

C10_SavedBytesInMidiRange ==
    (passed /\ pass.ran) =>
        \A s \in Segs : pass.progs[s] > 0 => pass.written[s] \in 0 .. MidiMax

\* C10 witness: a save ran while base was above 127 and programmed 127.
C10_Witness ==
    /\ passed /\ pass.ran /\ pass.saved
    /\ pass.value["b"] > MidiMax
    /\ pass.progs["b"] = 1 /\ pass.written["b"] = MidiMax

\* C11: a pass changes a segment only if its save_states() ran and the
\* selector's value clamped to 0..127 differed from the segment's read();
\* a save that finds them equal programs no byte and erases nothing.
C11_SaveOnlyOnChange ==
    [][\A s \in Segs :
         LET old == IF s = "b" THEN seg_b ELSE seg_c
             new == IF s = "b" THEN seg_b' ELSE seg_c'
             val == IF s = "b" THEN pc_base' ELSE bs_curr'
         IN  /\ new # old => pass'.saved /\ clamp(val) # read(old)
             /\ (~passed /\ passed' /\ pass'.saved /\ clamp(val) = read(old)) =>
                    new = old /\ pass'.progs[s] = 0 /\ pass'.erases[s] = 0]_vars

\* C11 witness: a save ran after a burst of program-selector edits that ended
\* on the stored value, and programmed nothing into SEGMENT_B.
C11_Witness ==
    /\ passed /\ pass.ran /\ pass.saved /\ "pc" \in edited
    /\ clamp(pc_base) = read(seg_b)
    /\ pass.progs["b"] = 0 /\ pass.erases["b"] = 0

\* C12: after initialize() each selector holds its segment's read() value if
\* the segment is not empty and the default 0 if it is, and the values first
\* sent (program change first, bank select last) are those loaded values.
C12_LoadOnStartup ==
    (phase = "run" /\ pass = NoPass) =>
        /\ pc_base = (IF empty(seg_b) THEN 0 ELSE read(seg_b))
        /\ bs_curr = (IF empty(seg_c) THEN 0 ELSE read(seg_c))
        /\ emitted[1] = <<"program_change", pc_base>>
        /\ emitted[Len(emitted)] = <<"control_change", "bank_select", bs_curr>>

\* C12 witness: startup with a stored program base and an empty bank segment.
C12_Witness ==
    /\ phase = "run" /\ pass = NoPass
    /\ ~empty(seg_b) /\ pc_base = 77
    /\ empty(seg_c) /\ bs_curr = 0

\* Positions in emitted of the program-change messages.
PcSent == {i \in 1 .. Len(emitted) : emitted[i][1] = "program_change"}

\* C13: every value sent by either selector is within 0..127 (program
\* change, its CC mapping, bank select), and the program change sent last is
\* min(max(position + base, 0), 127) of the selector's state.
C13_EmittedValuesInMidiRange ==
    /\ \A i \in 1 .. Len(emitted) :
          emitted[i][Len(emitted[i])] \in 0 .. MidiMax
    /\ PcSent # {} =>
          LET k == CHOOSE i \in PcSent : \A j \in PcSent : j <= i
          IN  emitted[k][2] = Min2(Max2(pc_curr + pc_base, 0), MidiMax)

\* C13 witness: a program change was sent in a pass that left position 2 and
\* position + base above 127.
C13_Witness ==
    /\ passed /\ pass.ran /\ PcSent # {}
    /\ pc_curr = 2 /\ pc_curr + pc_base > MidiMax

----------------------------------------------------------------------------
(* Claims about the debouncer *)

\* The debounced state of the debouncer under test.
DebState == btn[UnitButton].result

\* C14 (as claimed): standard policy, from a settled state s (counter 0 and
\* false, or counter samples and true): nine readings of the other value
\* followed by one of s leave the state s, and when only the other value is
\* fed the state has changed exactly from the 10th reading on.
C14_FlipsOnTenthReading ==
    last.op = "debouncer" =>
        /\ (\A i \in 1 .. Len(last.fed) : last.fed[i] # last.start) =>
              ((DebState # last.start) <=> Len(last.fed) >= samples)
        /\ (/\ Len(last.fed) = samples
            /\ \A i \in 1 .. samples - 1 : last.fed[i] # last.start
            /\ last.fed[samples] = last.start) => DebState = last.start

\* C15 (as claimed): standard policy: the debounced state changes only on a
\* reading that ends a run of at least samples consecutive readings equal to
\* the new state.
C15_ChangeNeedsConsecutiveRun ==
    (last.op = "debouncer" /\ DebState # last.was) =>
        /\ last.fed[Len(last.fed)] = DebState
        /\ RunLen(last.fed) >= samples

\* C16: immediate-press policy: a true reading sets the counter to samples
\* and the state to true at once; while the state is true the counter is
\* samples less the number of false readings since the last true one, and
\* the state returns to false only on a false reading that ends a run of
\* more than samples consecutive false readings.
C16_ImmediatePressDebouncedRelease ==
    last.op = "debouncer" =>
        LET sw == last.fed[Len(last.fed)]
            d  == btn[UnitButton]
        IN  /\ sw => d.counter = samples /\ d.result
            /\ (~sw /\ d.result) =>
                  /\ \/ last.start
                     \/ \E i \in 1 .. Len(last.fed) : last.fed[i]
                  /\ RunLen(last.fed) <= samples
                  /\ d.counter = samples - RunLen(last.fed)
            /\ (last.was /\ ~d.result) => ~sw /\ RunLen(last.fed) > samples

\* C16 witness: a release was reported after readings that bounced: a true
\* reading had interrupted the false ones.
C16_Witness ==
    /\ last.op = "debouncer" /\ last.was /\ ~DebState
    /\ \E i, j \in 1 .. Len(last.fed) : i < j /\ ~last.fed[i] /\ last.fed[j]

----------------------------------------------------------------------------
(* Claims about the edge detector *)

\* C17: the edge detector returns a non-zero result exactly on the calls on
\* which the debounced state changes (1 when it becomes true, -1 when it
\* becomes false), the non-zero results alternate starting with 1, and
\* however long a press is held it has produced one 1 more than -1 while
\* the debounced state is true and equally many once it is false again.
C17_OneRisingOneFallingPerPress ==
    last.op = "edge_detector" =>
        /\ (last.ret # 0) <=> (DebState # last.was)
        /\ last.ret # 0 => last.ret = (IF DebState THEN 1 ELSE -1)
        /\ \A i \in 1 .. Len(last.edges) :
              last.edges[i] = (IF i % 2 = 1 THEN 1 ELSE -1)
        /\ DebState <=> (Len(last.edges) % 2 = 1)

\* C17 witness: a press held over several calls from the constructed state
\* and its release have produced one Rising and one Falling.
C17_Witness ==
    /\ last.op = "edge_detector" /\ last.edges = <<1, -1>>
    /\ Len(last.fed) >= 3 /\ last.fed[1] /\ last.fed[2] /\ last.fed[3]

----------------------------------------------------------------------------
(* Claims about the repeat button *)

\* Delay in force after the i-th fire of a press.
DelayAfter(i) == IF i = 1 THEN delay_ ELSE rate

\* Fires among the calls made while the switch was closed.
FiresInHold == {i \in 1 .. Len(last.fires) : last.fires[i] <= HoldMs}

\* C18 (as claimed): with delay 1000 ms and rate 100 ms, called once per
\* millisecond: the first call of the press fires, no other fire comes
\* before the initial delay has passed, a press held for 1300 ms has fired
\* 1 + 3 times when the switch opens, and the press as a whole has fired
\* between 1 + 2 and 1 + 4 times.
C18_HeldPressFires ==
    last.op = "repeat_button" =>
        /\ Len(last.fires) >= 1 /\ last.fires[1] = 0
        /\ \A i \in 2 .. Len(last.fires) : last.fires[i] >= delay_
        /\ last.t > HoldMs =>
              /\ Cardinality(FiresInHold) = 1 + 3
              /\ Len(last.fires) \in 1 + 2 .. 1 + 4

\* C19 (as claimed): whatever millis() is at the press, while the button is
\* held successive fires are one current delay apart (give or take the
\* tick), and the time since the last fire never exceeds the current delay
\* by more than a tick.
C19_RepeatToleratesWrap ==
    (last.op = "repeat_button" /\ last.t <= HoldMs + 1) =>
        /\ \A i \in 1 .. Len(last.fires) - 1 :
              last.fires[i + 1] - last.fires[i]
                  \in DelayAfter(i) .. DelayAfter(i) + 1
        /\ Len(last.fires) >= 1 =>
              (last.t - 1) - last.fires[Len(last.fires)]
                  <= DelayAfter(Len(last.fires)) + 1

----------------------------------------------------------------------------
(* Claims about the hysteresis gate *)

\* C20: a call of the gate with a sample within noise_window of the stored
\* value returns false and leaves the stored value as it was; a call with a
\* sample further away returns true and stores the sample.
C20_GateBand ==
    last.op = "gate" =>
        IF Abs(last.s - last.ref) > noise_window
        THEN last.ret /\ gt_val = last.s
        ELSE ~last.ret /\ gt_val = last.ref

\* C20 witness: after an earlier call has moved the stored value away from
\* its initial 0, a sample exactly noise_window below it has been rejected.
C20_Witness ==
    /\ last.op = "gate" /\ ~last.ret
    /\ last.ref # 0 /\ last.s = last.ref - noise_window /\ gt_val = last.ref

----------------------------------------------------------------------------
(* Claims about the lowpass filter *)

\* C21: once the filter (k = 8 or 16) is fed the same sample on every call,
\* from whatever accumulator the earlier samples left, its output comes
\* within 1 of the sample and stays within 1 on every later call.
C21_ConstantInputConverges ==
    last.const ~> [](Abs(last.out - last.s) <= 1)

\* C21 witness: the constant stream began with outputs further than 1 from
\* the sample, and the output now equals the sample, which is neither end
\* of the range.
C21_Witness ==
    /\ last.op = "lowpass" /\ last.const /\ last.far
    /\ last.s = 100 /\ last.out = last.s

----------------------------------------------------------------------------
(* Claims about the program-change CC mapping *)

\* C22: every program change among the messages of an operation is followed
\* at once by five control changes, for CC numbers PcCcStart .. PcCcStart + 4
\* in ascending order, the one for the switch position carrying 127 and the
\* other four carrying 0.
C22_OneHotCcMapping ==
    \A i \in PcSent :
        /\ i + PcPositions <= Len(emitted)
        /\ \A j \in 0 .. PcPositions - 1 :
              emitted[i + 1 + j] =
                  <<"control_change", PcCcStart + j,
                    IF j = pc_curr THEN MidiMax ELSE 0>>

\* C22 witness: a loop pass has sent a program change with the switch in
\* position 2, and the third mapped CC carries 127.
C22_Witness ==
    /\ passed /\ pass.ran /\ pc_curr = 2
    /\ \E i \in PcSent :
          /\ i + PcPositions <= Len(emitted)
          /\ emitted[i + 3] = <<"control_change", PcCcStart + 2, MidiMax>>

----------------------------------------------------------------------------
(* Claims about the timing of the deferred save *)

\* C23 (as claimed): a loop pass in which a selector was edited leaves the
\* current time in save_delay_start_time, and a pass commits (runs both
\* save() and mark_saved) only when more than save_delay ms have passed
\* since the most recent edit of either selector.
C23_DelayFromLastEdit ==
    (passed /\ pass.ran) =>
        /\ (pass.edits # {} /\ ~pass.saved) => save_delay_start_time = clock
        /\ pass.saved => quiet > save_delay

\* C24 (as claimed): while a change is pending, a further reset_save_delay
\* leaves save_delay_start_time at the time of the oldest pending edit.
C24_TimestampOfOldestEdit ==
    [][(pendingFor # -1 /\ last'.op = "reset_save_delay")
          => save_delay_start_time' = save_delay_start_time]_vars

\* C24 (amended): while a change is pending, save_delay_start_time holds
\* the time of the most recent reset_save_delay: each call, whether or not
\* a change was already pending, stores the current millis().
C24_TimestampOfLatestEdit ==
    /\ pendingFor # -1 => U32Add(save_delay_start_time, pendingFor) = clock
    /\ last.op = "reset_save_delay" => save_delay_start_time = clock

\* C24 witness: reset_save_delay was called while an earlier change had been
\* pending for some time, and the timestamp is that of the later call.
C24_Witness ==
    /\ last.op = "reset_save_delay" /\ last.was > 0
    /\ save_delay_start_time = clock

\* C25 (as claimed): save_delay_start_time goes from a pending timestamp to
\* "none" only in a loop pass whose save_states() found should_save() true
\* and ran both save() calls, never through the handling of an input, and
\* every such pass leaves it at "none".
C25_ClearedOnlyByCommit ==
    [][/\ (save_delay_start_time # MinusOne32
              /\ save_delay_start_time' = MinusOne32)
            => (passed' /\ pass'.ran /\ pass'.saved)
       /\ (~passed /\ passed' /\ pass'.saved)
            => save_delay_start_time' = MinusOne32]_vars

\* C26 (as claimed): whatever millis() reads when reset_save_delay is
\* called, the scheduler is pending from then until mark_saved, and
\* should_save() is true once more than save_delay ms have passed since
\* the call.
C26_ResetLeavesPending ==
    /\ pendingFor # -1 => save_delay_start_time # MinusOne32
    /\ (last.op = "should_save" /\ pendingFor > save_delay) => last.ret

----------------------------------------------------------------------------
(* Claims about the state of the button objects *)

\* C27 (as claimed): after every call of a repeat_button, whatever millis()
\* was when the press began, start_time is -1 exactly when the debounced
\* state is released.
C27_StartTimeUnsetIffReleased ==
    last.op = "repeat_button" =>
        (btn[UnitButton].start_time = -1 <=> ~btn[UnitButton].result)

\* C28: after any sequence of readings, under either debounce policy, the
\* debouncer's counter is within 0 .. samples.
C28_CounterInRange ==
    btn[UnitButton].counter \in 0 .. samples

\* C28 witness: under the standard policy only true readings, more than
\* samples + 1 of them, have been fed and the counter stands at samples.
C28_Witness ==
    /\ last.op = "edge_detector" /\ ~last.immediate
    /\ Len(last.fed) >= samples + 2
    /\ \A i \in 1 .. Len(last.fed) : last.fed[i]
    /\ btn[UnitButton].counter = samples

----------------------------------------------------------------------------
(* Claims about the selector buttons *)

\* The repeat_button of b returned true in this step's loop pass: a rising
\* edge, or a repeat (start_time set to the time of the pass).
FiredNow(b) ==
    \/ ~btn[b].prev /\ btn'[b].prev
    \/ /\ btn[b].prev /\ btn'[b].prev
       /\ btn'[b].start_time = ToInt16(clock[2])
       /\ btn[b].start_time # ToInt16(clock[2])

\* The selector a button belongs to, its step, and its limit guard.
BtnSel(b) == IF b \in {"bs_up", "bs_down"} THEN "bs" ELSE "pc"
BtnStep(b) ==
    CASE b = "pc_up" -> 1
      [] b = "pc_down" -> -1
      [] b = "pc_grp_up" -> GroupStep
      [] b = "pc_grp_down" -> -GroupStep
      [] b = "bs_up" -> 1
      [] b = "bs_down" -> -1
GuardPasses(b) ==
    LET v == IF BtnSel(b) = "pc" THEN pc_base ELSE bs_curr
    IN  IF BtnStep(b) > 0 THEN v < MidiMax ELSE v > 0

\* The buttons that fired in this step's pass with their guard passing.
Acting == {b \in Buttons : FiredNow(b) /\ GuardPasses(b)}

\* The program changes among the messages out, and the number of bank-select
\* messages: what is left beside the program changes and their five mapped
\* control changes each.
PcIn(out) == {i \in 1 .. Len(out) : out[i][1] = "program_change"}
BankCount(out) == Len(out) - (1 + PcPositions) * Cardinality(PcIn(out))

\* C29: in a loop pass, a selector's value changes (by the button's step),
\* reset_save_delay is called and the selector's message is sent exactly
\* for the buttons whose repeat_button fired and whose limit guard passed;
\* with no such button the values and (unless the pass commits) the pending
\* timestamp are unchanged, and nothing is sent unless the switch moved.
C29_ButtonActsOnlyOnGuardedFire ==
    [][(phase = "run" /\ passed' /\ clock' = clock) =>
        /\ \A b \in Acting :
              /\ BtnSel(b) = "pc" => pc_base' = pc_base + BtnStep(b)
              /\ BtnSel(b) = "bs" => bs_curr' = bs_curr + BtnStep(b)
              /\ BtnSel(b) \in pass'.edits
              /\ ~pass'.saved => save_delay_start_time' = clock
              /\ BtnSel(b) = "pc" =>
                    \E i \in 1 .. Len(emitted') : emitted'[i] =
                        <<"program_change", clamp(pc_curr' + pc_base')>>
              /\ BtnSel(b) = "bs" =>
                    /\ BankCount(emitted') = 1
                    /\ emitted'[Len(emitted')] =
                          <<"control_change", "bank_select", bs_curr'>>
        /\ (\A b \in Acting : BtnSel(b) # "pc") =>
              /\ pc_base' = pc_base
              /\ "pc" \notin pass'.edits
              /\ pc_curr' = pc_curr => PcIn(emitted') = {}
        /\ (\A b \in Acting : BtnSel(b) # "bs") =>
              /\ bs_curr' = bs_curr
              /\ "bs" \notin pass'.edits
              /\ BankCount(emitted') = 0
        /\ (Acting = {} /\ ~pass'.saved) =>
              save_delay_start_time' = save_delay_start_time
        /\ (Acting = {} /\ pc_curr' = pc_curr) => emitted' = <<>>]_vars

\* C29 witness: the bank selector stands at 127 with a commit pending, and
\* the pass just made saw its up button held at the limit: nothing was
\* sent and the pending timestamp is older than the pass.
C29_Witness ==
    /\ passed /\ pass.ran /\ pass.inputs
    /\ bs_curr = MidiMax
    /\ btn["bs_up"].result /\ btn["bs_up"].start_time = ToInt16(clock[2])
    /\ btn["bs_up"].delay = rate
    /\ emitted = <<>>
    /\ save_delay_start_time # MinusOne32 /\ save_delay_start_time # clock

----------------------------------------------------------------------------
(* Claims about the program selector's analog input *)

\* C30 (as claimed): for readings in 0..1023 the position stays in 0..4, a
\* program change is sent only by a call that changes the position, a
\* reading less than 8 counts from 205 x position leaves the position as it
\* is, and while the reading stays inside a window narrower than 8 counts
\* the position changes at most once and never comes back to a position it
\* has left.
C30_AnalogDeadband ==
    /\ pc_curr \in 0 .. PcPositions - 1
    /\ last.op = "analog" =>
          /\ PcIn(emitted) # {} => pc_curr # last.from
          /\ Abs(last.val - PcStep * last.from) < PcDeadband
                => pc_curr = last.from
          /\ last.lo # -1 => last.changes <= 1 /\ ~last.back

----------------------------------------------------------------------------
(* Claims about the loop pass as a whole *)

\* C31: a loop pass that commits does so after all of its input processing:
\* when the pass is over each segment reads as the clamped value its
\* selector has after the pass, edits made in that same pass included.
C31_SaveAfterAllInputs ==
    (passed /\ pass.ran /\ pass.saved /\ ~pass.failed) =>
        \A s \in Segs :
            /\ pass.value[s] = ValueOf(s)
            /\ read(SegOf(s)) = clamp(ValueOf(s))

\* C31 witness: one pass both edited the program selector and committed,
\* programming the edited value.
C31_Witness ==
    /\ passed /\ pass.ran /\ pass.saved /\ ~pass.failed
    /\ "pc" \in pass.edits /\ pass.progs["b"] = 1
    /\ pass.written["b"] = clamp(pc_base)

----------------------------------------------------------------------------
(* Claims about the debug logger's ring buffer *)

Full(r) == Wrap(r.head + 1) = r.tail

\* C33: a byte put while the buffer is full is stored, the oldest byte in
\* the buffer is discarded to make room for it, and the overflow flag is
\* set.
C33_OverflowDiscardsOldest ==
    (last.op = "put" /\ Full(last.before)) =>
        /\ rb.overflow
        /\ rb.tail = Wrap(last.before.tail + 1)
        /\ rb.head = Wrap(last.before.head + 1)
        /\ rb.buffer[last.before.head] = last.data

----------------------------------------------------------------------------
(* Claims about the layout of a flash segment *)

\* The bytes of s before n are written and those from n on are erased.
PrefixOf(s, n) ==
    \A i \in Idx : IF i < n THEN s[i] # Erased ELSE s[i] = Erased

\* C35: in every state reached from an erased segment by writes of values in
\* 0..254 and erases, the non-erased bytes are a contiguous prefix of the
\* segment: bytes 0..n-1 differ from 0xFF and bytes n..63 are 0xFF for some
\* n in 0..64; read() then returns byte n-1, the most recently written one.
C35_NonErasedPrefix ==
    \E n \in 0 .. SegSize :
        /\ PrefixOf(seg_b, n)
        /\ n > 0 => read(seg_b) = seg_b[n - 1]
        /\ (n > 0 /\ last.op = "write") => seg_b[n - 1] = last.val

\* C35 witness: the write that found the segment full has left one written
\* byte in front of 63 erased ones.
C35_Witness ==
    /\ last.op = "write" /\ last.wasFull
    /\ PrefixOf(seg_b, 1)

----------------------------------------------------------------------------
(* Claims about the continuous controllers *)

\* C36: with raw readings in 0..1023 on every tick, the accumulator of each
\* lowpass stage stays within 0..k*1023 + k - 1 and each stage's output
\* within 0..1023, so every control-change MSB and LSB sent lies in 0..127
\* and every pitch-bend value sent lies in 0..16383.
C36_FilterAndMessageRanges ==
    /\ cc.lp1 \in 0 .. Lp1K * AdcMax + Lp1K - 1
    /\ cc.lp2 \in 0 .. Lp2K * AdcMax + Lp2K - 1
    /\ last.out1 \in 0 .. AdcMax
    /\ last.val \in 0 .. AdcMax
    /\ \A i \in 1 .. Len(emitted) :
          IF emitted[i][1] = "control_change"
          THEN emitted[i][3] \in 0 .. MidiMax
          ELSE emitted[i][3] \in 0 .. 128 * 128 - 1

\* C36 witness: a controller that was at rest at the top of its range
\* sends MSB 127 when the reading falls.
C36_Witness ==
    /\ last.op = "call" /\ last.fired /\ last.kind = "controller"
    /\ last.val_ < AdcMax /\ cc.lp2 > Lp2K * (AdcMax - 8)
    /\ emitted[2][3] = MidiMax

----------------------------------------------------------------------------
(* Claims about persistence across a power cycle *)

\* C37: once a commit has completed, a restart followed by load() restores
\* a base with which every switch position 0..4 selects the program it
\* selected immediately before the restart, whatever base the buttons had
\* produced.
C37_RoundTripAcrossPowerCycle ==
    (last.op = "power_cycle" /\ phase = "run") =>
        \A p \in 0 .. PcPositions - 1 :
            pc_get([curr |-> p, base |-> pc_base]) = last.programs[p]

----------------------------------------------------------------------------
(* Claims about what a commit writes *)

\* C38: a commit writes (programs or erases) a segment only if that
\* segment's selector was edited since the last commit or since startup; a
\* commit caused by edits of one selector leaves the other's segment alone.
C38_CommitWritesOnlyEditedSegments ==
    (passed /\ pass.ran /\ pass.saved) =>
        \A s \in Segs :
            (pass.progs[s] > 0 \/ pass.erases[s] > 0) =>
                SelOf(s) \in pass.dirty

\* C38 as amended: a commit writes a segment only if that segment's
\* selector was edited since the last commit or since startup, or the
\* segment was still erased, in which case the selector's value is stored
\* though it was never edited.
C38_CommitWritesEditedOrErasedSegments ==
    (passed /\ pass.ran /\ pass.saved) =>
        \A s \in Segs :
            (pass.progs[s] > 0 \/ pass.erases[s] > 0) =>
                SelOf(s) \in pass.dirty \/ s \in pass.wasEmpty

\* C38 witness: a commit after an edit of the bank selector alone programs
\* segment C and leaves the written segment B alone.
C38_Witness ==
    /\ passed /\ pass.ran /\ pass.saved
    /\ pass.dirty = {"bs"} /\ pass.wasEmpty = {}
    /\ pass.progs["c"] = 1 /\ pass.progs["b"] = 0 /\ pass.erases["b"] = 0

\* Both selectors are stored and nothing is pending.
Persisted ==
    /\ save_delay_start_time = MinusOne32
    /\ pendingFor = -1
    /\ \A s \in Segs : read(SegOf(s)) = clamp(ValueOf(s))

\* C39: if a selector edit occurs and no further edit follows, then, the
\* loop running on and the flash operations succeeding, eventually the
\* commit runs, the pending marker is cleared and each segment's read() is
\* its selector's value clamped to 0..127.
C39_EventuallyPersisted == (nInputs = 1) ~> Persisted

----------------------------------------------------------------------------
(* Claims about the debug logger *)

\* The bytes st are the beginning of a sequence of complete SysEx frames:
\* 0xF0 at the first place of every 13 and nowhere else, 0xF7 at the last
\* and nowhere else.
Framed(st) ==
    \A i \in 1 .. Len(st) :
        /\ (st[i] = SysExStart) <=> ((i - 1) % SYSEX_MESSAGE_SIZE = 0)
        /\ (st[i] = SysExEnd) <=> (i % SYSEX_MESSAGE_SIZE = 0)

\* C40: the bytes that flush() writes to the MIDI output are a sequence of
\* complete 13-byte SysEx frames, each starting with 0xF0 and ending with
\* 0xF7 (a flush may stop inside a frame, which the next one continues),
\* however log calls and flush calls interleave and also when the ring
\* buffer becomes full; one flush writes at most 32 bytes.
C40_FlushDeliversWholeFrames ==
    /\ Framed(emitted)
    /\ last.op = "flush" => last.n <= FlushMax
====
